---------------------------- MODULE Spec2Model ----------------------------
(***************************************************************************)
(* PropPulse+ valuation pipeline: the odds converter and expected value    *)
(* (prop_ev.py), the matchup (DvP) multiplier (prop_ev.py over the table   *)
(* of dvp_updater.py), the main-board candidate selector and the batch     *)
(* runner (auto_prop_scraper.py).                                          *)
(*                                                                         *)
(* Numbers.  Python floats are modelled as exact rationals:                *)
(*   - a probability, payout or EV is a record [n |-> num, d |-> den],     *)
(*     d > 0;                                                              *)
(*   - a prop line is an integer count of half points (line 20.5 -> 41);   *)
(*   - a DvP rank is an integer count of tenths (rank 151 -> 1510), and a  *)
(*     DvP multiplier an integer count of 1/3000 (1.10 -> 3300).           *)
(***************************************************************************)
EXTENDS Integers, Sequences, FiniteSets, TLC

VARIABLES
    \* ---- prop_ev.main, lines 383-384: one valuation against posted odds
    odds,        \* American odds of the prop under valuation
    odds2,       \* American odds of a second prop (same run of the program)
    p_model,     \* model probability handed to ev_sportsbook
    valuation,   \* NoValue, or [p_book, p_book2, payout, ev]
    \* ---- prop_ev.get_dvp_multiplier over the module-level dvp_data
    dvp_data,    \* the table loaded at import (prop_ev.py:13)
    dvpArgs,     \* [opp, pos, stat]: the call's arguments
    dvpOut,      \* NoValue, or the call's outcome
    \* ---- auto_prop_scraper.select_main_line on one (player, stat) group
    group,       \* the group's rows, in DataFrame order
    selected,    \* NoValue, or [idx, row]: the row select_main_line returned
    \* ---- auto_prop_scraper.fetch_prizepicks_props
    feed,        \* data["data"] as consumed so far by the loop of line 65
    props,       \* the list `props` built by the loop
    fetchPc,     \* "request" | "loop" | "done"
    returned,    \* the list the function returned
    \* ---- auto_prop_scraper.main
    batch,       \* the props main() got from fetch_prizepicks_props
    cursor,      \* the 1-based index i of the for loop of line 365
    outcomes,    \* what analyze_single_prop did for each prop so far
    results,     \* the list `results`
    mainPc,      \* "start" | "loop" | "report" | "done"
    report,      \* NoValue, or the outcome of the run
    \* ---- prop_ev.grade_probabilities on the caller's game log
    log,         \* the caller's DataFrame df: [cols, rows]
    gradeArgs,   \* [stat_col, line, proj_mins, avg_mins, injury_status, dvp_mult]
    gradeOut,    \* NoValue, or the call's outcome
    \* ---- prop_ev.fetch_player_logs
    player_name, \* the player whose logs are fetched
    attempts,    \* the providers contacted so far, with what came of each
    logsPc,      \* "bdl" | "espn" | "bbref" | "none" | "done"
    logsOut,     \* NoValue, or what the function returned
    \* ---- dvp_updater.load_dvp_data, called once at prop_ev's import
    cache,         \* the file data/dvp_cache.json: [state, age, dvp]
    force_refresh, \* the argument of load_dvp_data
    fetches,       \* what each call of _fetch_dvp_from_hashtag returned
    loadPc,        \* "import" | "run" | "raised"
    lookups        \* the table each get_dvp_multiplier call of the run read

vars == << odds, odds2, p_model, valuation, dvp_data, dvpArgs, dvpOut,
           group, selected, feed, props, fetchPc, returned,
           batch, cursor, outcomes, results, mainPc, report,
           log, gradeArgs, gradeOut,
           player_name, attempts, logsPc, logsOut,
           cache, force_refresh, fetches, loadPc, lookups >>

oddsVars  == << odds, odds2, p_model, valuation >>
dvpVars   == << dvp_data, dvpArgs, dvpOut >>
groupVars == << group, selected >>
fetchVars == << feed, props, fetchPc, returned >>
mainVars  == << batch, cursor, outcomes, results, mainPc, report >>
gradeVars == << log, gradeArgs, gradeOut >>
logsVars  == << player_name, attempts, logsPc, logsOut >>
loadVars == << cache, force_refresh, fetches, loadPc, lookups >>

NoValue == [none |-> TRUE]

Abs(x) == IF x < 0 THEN -x ELSE x

-----------------------------------------------------------------------------
(* Each component leaves the state of the others alone.                    *)

OddsFrame ==
    UNCHANGED << dvpVars, groupVars, fetchVars, mainVars, gradeVars, logsVars,
                 loadVars >>

DvpFrame ==
    UNCHANGED << oddsVars, groupVars, fetchVars, mainVars, gradeVars, logsVars,
                 loadVars >>

GroupFrame ==
    UNCHANGED << oddsVars, dvpVars, fetchVars, mainVars, gradeVars, logsVars,
                 loadVars >>

FetchFrame ==
    UNCHANGED << oddsVars, dvpVars, groupVars, mainVars, gradeVars, logsVars,
                 loadVars >>

MainFrame ==
    UNCHANGED << oddsVars, dvpVars, groupVars, fetchVars, gradeVars, logsVars,
                 loadVars >>

GradeFrame ==
    UNCHANGED << oddsVars, dvpVars, groupVars, fetchVars, mainVars, logsVars,
                 loadVars >>

LoadFrame ==
    UNCHANGED << oddsVars, groupVars, fetchVars, mainVars, gradeVars, logsVars >>

LogsFrame ==
    UNCHANGED << oddsVars, dvpVars, groupVars, fetchVars, mainVars, gradeVars,
                 loadVars >>

-----------------------------------------------------------------------------
(* Exact rationals for Python's true division.                             *)

Rat(n, d) == [n |-> n, d |-> d]

RatMul(a, b) == Rat(a.n * b.n, a.d * b.d)

RatSub(a, b) == Rat(a.n * b.d - b.n * a.d, a.d * b.d)

RatEq(a, b) == a.n * b.d = b.n * a.d

RatLt(a, b) == a.n * b.d < b.n * a.d

RatLe(a, b) == a.n * b.d <= b.n * a.d

\* r rounded to four decimals is v4 / 10000
RatApprox4(r, v4) == 2 * Abs(r.n * 10000 - v4 * r.d) <= r.d

-----------------------------------------------------------------------------
(* OddsConverter: prop_ev.py lines 49-56.                                  *)

american_to_prob_swapped(o) ==
    IF o < 0 THEN Rat(100, Abs(o) + 100) ELSE Rat(o, o + 100)

american_to_prob_zero_as_negative(o) ==
    IF o <= 0 THEN Rat(Abs(o), Abs(o) + 100) ELSE Rat(100, o + 100)

american_to_prob(o) ==
    IF o < 0 THEN Rat(Abs(o), Abs(o) + 100) ELSE Rat(100, o + 100)

net_payout(o) ==
    IF o < 0 THEN Rat(100, Abs(o)) ELSE Rat(o, 100)

ev_sportsbook_book_edge(p, o) == RatSub(p, american_to_prob(o))

ev_sportsbook(p, o) ==
    RatSub(RatMul(p, net_payout(o)), RatSub(Rat(1, 1), p))

\* Bounds of the odds inputs: multiples of ten up to 10 * MaxOddsTens, and
\* every integer of -MaxOddsUnit .. MaxOddsUnit.
MaxOddsTens == 25

MaxOddsUnit == 3

\* Probabilities k / ProbDen, k = 0 .. ProbDen.
ProbDen == 4

OddsVals ==
    {10 * k : k \in (-MaxOddsTens)..MaxOddsTens}
        \cup ((-MaxOddsUnit)..MaxOddsUnit)

ProbVals == {Rat(k, ProbDen) : k \in 0..ProbDen}

IdleOdds ==
    /\ odds = 0
    /\ odds2 = 0
    /\ p_model = Rat(0, 1)
    /\ valuation = NoValue

\* prop_ev.main lines 383-384 (auto_prop_scraper runs the same pair per
\* prop): the book probability and the EV of the model probability.
Valuate(o, p) ==
    [p_book |-> american_to_prob(o), payout |-> net_payout(o),
     ev |-> ev_sportsbook(p, o)]

ValuateProps ==
    /\ valuation = NoValue
    /\ valuation' = [first |-> Valuate(odds, p_model),
                     second |-> Valuate(odds2, p_model)]
    /\ UNCHANGED << odds, odds2, p_model >>
    /\ OddsFrame

-----------------------------------------------------------------------------
(* Python values, tagged with their type, for code that branches on        *)
(* truthiness, on None, and that fails on a value of the wrong type.       *)

PyNone == [tag |-> "none"]

PyStr(s) == [tag |-> "str", val |-> s]

PyNum(x) == [tag |-> "num", val |-> x]

\* A dict is a function from its keys (strings) to Python values.
PyDict(f) == [tag |-> "dict", val |-> f]

EmptyDict == PyDict(<< >>)

\* bool(v): None, "", 0 and {} are falsy.
Truthy(v) ==
    CASE v.tag = "none" -> FALSE
      [] v.tag = "str"  -> v.val # ""
      [] v.tag = "num"  -> v.val # 0
      [] v.tag = "dict" -> DOMAIN v.val # {}

\* str.upper() on the spellings the model draws its arguments from.
Upper(s) ==
    CASE s = "lal" -> "LAL"
      [] s = "pg"  -> "PG"
      [] s = "pts" -> "PTS"
      [] OTHER     -> s

\* d.get(k, default), d a dict.
DictGet(d, k, default) == IF k \in DOMAIN d.val THEN d.val[k] ELSE default

Return(v) == [kind |-> "return", val |-> v]

Raise == [kind |-> "raise"]

-----------------------------------------------------------------------------
(* Matchup multiplier: prop_ev.py lines 315-326.  A multiplier m is the    *)
(* integer 3000 * m, a rank r the integer 10 * r.                          *)

NeutralMult == 3000

dvp_formula_rank_from_zero(rank) == 3300 - rank

\* the formula held at 0.80 from below
dvp_formula_floor(rank) ==
    IF 3300 - (rank - 10) < 2400 THEN 2400 ELSE 3300 - (rank - 10)

\* line 324: 1.1 - (rank - 1) / 300
dvp_formula(rank) == 3300 - (rank - 10)

\* The body of the try block, lines 317-324: what it returns, or that it
\* raised (AttributeError of .upper() / .get() on a value that has none,
\* TypeError of the arithmetic on a rank that is no number).
get_dvp_multiplier_body(table, opp, pos, stat) ==
    IF ~Truthy(opp) \/ ~Truthy(pos) \/ ~Truthy(stat) THEN Return(NeutralMult)
    ELSE IF table.tag # "dict" \/ opp.tag # "str" THEN Raise
    ELSE LET team_dict == DictGet(table, Upper(opp.val), EmptyDict) IN
    IF team_dict.tag # "dict" \/ pos.tag # "str" THEN Raise
    ELSE LET pos_dict == DictGet(team_dict, Upper(pos.val), EmptyDict) IN
    IF pos_dict.tag # "dict" \/ stat.tag # "str" THEN Raise
    ELSE LET rank == DictGet(pos_dict, Upper(stat.val), PyNone) IN
    IF rank.tag = "none" THEN Return(NeutralMult)
    ELSE IF rank.tag # "num" THEN Raise
    ELSE Return(dvp_formula(rank.val))

get_dvp_multiplier_no_except(table, opp, pos, stat) ==
    get_dvp_multiplier_body(table, opp, pos, stat)

\* lines 316, 325-326: except Exception: return 1.0
get_dvp_multiplier(table, opp, pos, stat) ==
    LET body == get_dvp_multiplier_body(table, opp, pos, stat) IN
    IF body.kind = "raise" THEN Return(NeutralMult) ELSE body

\* Ranks 1 .. MaxRank (and one fractional rank, 15.6: a cell that holds a
\* single number is stored as float(parts[0]), dvp_updater.py:150).
MaxRank == 300

RankVals == {10 * k : k \in 1..MaxRank} \cup {156}

\* dvp_updater._fetch_dvp_from_hashtag: every team maps every position to a
\* dict, filled per scraped row (lines 54-55, 152).  Two teams and two
\* positions stand for the thirty and the five.
ScrapedTable(r) ==
    PyDict([t \in {"LAL", "BOS"} |->
        PyDict([q \in {"PG", "C"} |->
            IF t = "LAL" /\ q = "PG"
            THEN PyDict([k \in {"PTS"} |-> PyNum(r)])
            ELSE EmptyDict])])

\* dvp_updater.load_dvp_data: the scraped (or cached) table, {} when the
\* scrape extracted nothing (line 232), or whatever a cache file written by
\* other hands holds under "dvp" (line 190): a team mapped to null, a rank
\* stored as a string, a number in place of the table.
DvpTables ==
    {ScrapedTable(r) : r \in RankVals}
        \cup { EmptyDict,
               PyDict([t \in {"LAL"} |-> PyNone]),
               PyDict([t \in {"LAL"} |->
                   PyDict([q \in {"PG"} |->
                       PyDict([k \in {"PTS"} |-> PyStr("1")])])]),
               PyNum(1) }

OppArgs == {PyNone, PyStr(""), PyStr("lal"), PyStr("LAL"), PyStr("BOS"),
            PyStr("XXX"), PyNum(7)}

PosArgs == {PyNone, PyStr("pg"), PyStr("C"), PyStr("G-F")}

StatArgs == {PyNone, PyStr("pts"), PyStr("PTS"), PyStr("PRA")}

CallGetDvpMultiplier ==
    /\ dvpOut = NoValue
    /\ dvpOut' = get_dvp_multiplier(dvp_data, dvpArgs.opp, dvpArgs.pos,
                                    dvpArgs.stat)
    /\ UNCHANGED << dvp_data, dvpArgs >>
    /\ DvpFrame

-----------------------------------------------------------------------------
(* CandidateSelector: auto_prop_scraper.fetch_prizepicks_props.  A line is *)
(* an integer count of half points; a row of the DataFrame is a record     *)
(* [player, stat, line, odds].                                             *)

\* line 131
allowed == {"PTS", "REB", "AST", "PRA", "PR", "PA", "REB+AST", "FG3M"}

\* lines 185-192: the stat's entry of outlier_thresholds, evaluated at line
outlier_thresholds(stat, line) ==
    CASE stat = "PTS"     -> (line < 6 \/ line > 100)
      [] stat = "REB"     -> (line < 1 \/ line > 50)
      [] stat = "AST"     -> (line < 1 \/ line > 36)
      [] stat = "PRA"     -> (line < 16 \/ line > 130)
      [] stat = "REB+AST" -> (line < 2 \/ line > 60)
      [] stat = "FG3M"    -> (line < 1 \/ line > 16)

HasOutlierThreshold(stat) ==
    stat \in {"PTS", "REB", "AST", "PRA", "REB+AST", "FG3M"}

\* lines 181-201.  line % 1 == 0.5 is "an odd count of half points".
is_likely_main_board(row) ==
    IF HasOutlierThreshold(row.stat) /\ outlier_thresholds(row.stat, row.line)
    THEN FALSE
    ELSE IF row.stat \in {"AST", "REB", "FG3M"} /\ row.line < 4
            /\ row.line % 2 = 1
    THEN FALSE
    ELSE TRUE

\* lines 207-216, in half points
line_ranges ==
    "PTS" :> << 10, 90 >> @@ "REB" :> << 2, 40 >> @@ "AST" :> << 2, 30 >>
    @@ "PRA" :> << 20, 120 >> @@ "PR" :> << 16, 100 >>
    @@ "PA" :> << 10, 80 >> @@ "REB+AST" :> << 4, 50 >>
    @@ "FG3M" :> << 1, 14 >>

\* every line is a main-board line
is_main_board_line_any(row) == TRUE

\* lines 220-226
is_main_board_line(row) ==
    IF row.stat \in DOMAIN line_ranges
    THEN line_ranges[row.stat][1] <= row.line
            /\ row.line <= line_ranges[row.stat][2]
    ELSE TRUE

\* lines 251-258, in half points
typical_values ==
    "PTS" :> << 21, 25, 29, 33, 37, 41, 45, 51, 57, 61 >>
    @@ "REB" :> << 7, 9, 11, 13, 15, 17, 19, 21 >>
    @@ "AST" :> << 5, 7, 9, 11, 13, 15, 17 >>
    @@ "PRA" :> << 37, 41, 45, 51, 57, 61, 71 >>
    @@ "REB+AST" :> << 9, 11, 13, 15, 17, 19, 21 >>
    @@ "FG3M" :> << 3, 5, 7, 9 >>

Range(f) == {f[i] : i \in DOMAIN f}

MinOf(S) == CHOOSE x \in S : \A y \in S : x <= y

\* group["line"]
LinesOf(g) == [i \in 1..Len(g) |-> g[i].line]

CountOf(ls, v) == Cardinality({i \in DOMAIN ls : ls[i] = v})

\* Series.value_counts(), of which lines 238-239 read the first entry only:
\* a value of the highest count, with that count.  Among values of equal
\* count pandas documents no order (it is the order the sort of the counts
\* leaves them in), so every value of the highest count can come first.
value_counts_head(ls) ==
    LET max_count == CHOOSE c \in {CountOf(ls, ls[i]) : i \in DOMAIN ls} :
                        \A i \in DOMAIN ls : CountOf(ls, ls[i]) <= c
    IN  {[value |-> ls[i], count |-> max_count] :
            i \in {k \in DOMAIN ls : CountOf(ls, ls[k]) = max_count}}

\* group[group["line"] == v].iloc[0]: the first row whose line is v
FirstWithLine(g, v) == MinOf({i \in 1..Len(g) : g[i].line = v})

Picked(g, i) == [idx |-> i, row |-> g[i]]

mode_pick_last_row(g, most_common) ==
    Picked(g, CHOOSE i \in 1..Len(g) :
                 /\ g[i].line = most_common.value
                 /\ \A j \in (i + 1)..Len(g) : g[j].line # most_common.value)

\* line 243; most_common is (line_counts.index[0], line_counts.iloc[0])
mode_pick(g, most_common) ==
    Picked(g, FirstWithLine(g, most_common.value))

\* line 266: min(abs(line - t) for t in targets)
DistToTypical(line, targets) ==
    MinOf({Abs(line - targets[k]) : k \in 1..Len(targets)})

\* lines 262-269: the loop over group["line"]; acc is (min_dist, best_line),
\* min_dist = float("inf") while acc.inf.
RECURSIVE TypicalLoopLastWins(_, _, _, _)
TypicalLoopLastWins(ls, targets, i, acc) ==
    IF i > Len(ls) THEN acc
    ELSE LET dist == DistToTypical(ls[i], targets) IN
         TypicalLoopLastWins(ls, targets, i + 1,
             IF acc.inf \/ dist <= acc.min_dist
             THEN [inf |-> FALSE, min_dist |-> dist, best_line |-> ls[i]]
             ELSE acc)

RECURSIVE TypicalLoop(_, _, _, _)
TypicalLoop(ls, targets, i, acc) ==
    IF i > Len(ls) THEN acc
    ELSE LET dist == DistToTypical(ls[i], targets) IN
         TypicalLoop(ls, targets, i + 1,
             IF acc.inf \/ dist < acc.min_dist
             THEN [inf |-> FALSE, min_dist |-> dist, best_line |-> ls[i]]
             ELSE acc)

typical_pick_last_wins(g) ==
    LET ls == LinesOf(g)
        acc == TypicalLoopLastWins(ls, typical_values[g[1].stat], 1,
                   [inf |-> TRUE, min_dist |-> 0, best_line |-> ls[1]])
    IN  Picked(g, FirstWithLine(g, acc.best_line))

\* lines 260-271
typical_pick(g) ==
    LET ls == LinesOf(g)
        acc == TypicalLoop(ls, typical_values[g[1].stat], 1,
                   [inf |-> TRUE, min_dist |-> 0, best_line |-> ls[1]])
    IN  Picked(g, FirstWithLine(g, acc.best_line))

\* sorted(values), by insertion
RECURSIVE Insert(_, _)
Insert(sorted, x) ==
    IF sorted = << >> THEN << x >>
    ELSE IF x <= Head(sorted) THEN << x >> \o sorted
    ELSE << Head(sorted) >> \o Insert(Tail(sorted), x)

RECURSIVE Sorted(_)
Sorted(ls) ==
    IF ls = << >> THEN << >> ELSE Insert(Sorted(Tail(ls)), Head(ls))

\* Series.median() times two (a count of quarter points): the middle value,
\* or the mean of the two middle values.
Median2(ls) ==
    LET srt == Sorted(ls)
        n == Len(ls)
    IN  IF n % 2 = 1 THEN 2 * srt[(n + 1) \div 2]
        ELSE srt[n \div 2] + srt[n \div 2 + 1]

median_pick_mean(g) ==
    LET ls == LinesOf(g)
        sum[i \in 0..Len(ls)] == IF i = 0 THEN 0 ELSE sum[i - 1] + ls[i]
        dist(i) == Abs(Len(ls) * ls[i] - sum[Len(ls)])
    IN  Picked(g, MinOf({i \in 1..Len(g) :
                            \A j \in 1..Len(g) : dist(i) <= dist(j)}))

\* lines 274-276: (group["line"] - median).abs().idxmin() is the first row
\* at the least distance
median_pick(g) ==
    LET ls == LinesOf(g)
        median_line == Median2(ls)
        dist(i) == Abs(2 * ls[i] - median_line)
    IN  Picked(g, MinOf({i \in 1..Len(g) :
                            \A j \in 1..Len(g) : dist(i) <= dist(j)}))

\* lines 232-276, given the first entry of line_counts
select_main_line(g, most_common) ==
    IF Len(g) = 1 THEN Picked(g, 1)
    ELSE IF most_common.count >= 2 THEN mode_pick(g, most_common)
    ELSE IF g[1].stat \in DOMAIN typical_values THEN typical_pick(g)
    ELSE median_pick(g)

\* Group sizes 1 .. MaxGroup.
MaxGroup == 4

\* Lines (half points) the groups are drawn from: 2.5, 4, 5.5, 20, 21, 22,
\* 23, 27.
LinePool == {5, 8, 11, 40, 42, 44, 46, 54}

StdOdds == -110

Row(player, stat, line) ==
    [player |-> player, stat |-> stat, line |-> line, odds |-> StdOdds]

\* The lines a row of the given stat can carry when the groups are formed:
\* those that passed the filters of lines 203 and 228.
GroupLines(stat) ==
    {l \in LinePool : is_likely_main_board(Row("LeBron James", stat, l))
                       /\ is_main_board_line(Row("LeBron James", stat, l))}

Groups ==
    UNION {
      UNION { {[i \in 1..n |-> Row("LeBron James", stat, ls[i])] :
                  ls \in [1..n -> GroupLines(stat)]} : n \in 1..MaxGroup }
      : stat \in allowed }

\* line 286: .apply(select_main_line) on one group
ApplySelectMainLine ==
    /\ selected = NoValue
    /\ \E most_common \in value_counts_head(LinesOf(group)) :
          selected' = select_main_line(group, most_common)
    /\ UNCHANGED group
    /\ GroupFrame

-----------------------------------------------------------------------------
(* fetch_prizepicks_props: the loop over the response (lines 65-159) and   *)
(* the deduplication (lines 175-303).                                      *)

\* The characters of the upper-cased texts (lines 75, 98, 106) a keyword is
\* searched in.
UpperChars ==
    "POINTS" :> << "P", "O", "I", "N", "T", "S" >>
    @@ "REBOUNDS" :> << "R", "E", "B", "O", "U", "N", "D", "S" >>
    @@ "ASSISTS" :> << "A", "S", "S", "I", "S", "T", "S" >>
    @@ "PTS+REB" :> << "P", "T", "S", "+", "R", "E", "B" >>
    @@ "PTS+AST" :> << "P", "T", "S", "+", "A", "S", "T" >>
    @@ "PTS+REBS" :> << "P", "T", "S", "+", "R", "E", "B", "S" >>
    @@ "FANTASY SCORE" :> << "F", "A", "N", "T", "A", "S", "Y", " ", "S", "C", "O", "R", "E" >>
    @@ "GOBLIN SPECIAL" :> << "G", "O", "B", "L", "I", "N", " ", "S", "P", "E", "C", "I", "A", "L" >>
    @@ "NBA" :> << "N", "B", "A" >>
    @@ "NFL" :> << "N", "F", "L" >>
    @@ "" :> << >>

\* The characters of player_name.lower() (line 149), as many as the name has.
LowerChars ==
    "LeBron James" :> << "l", "e", "b", "r", "o", "n", " ", "j", "a", "m", "e", "s" >>
    @@ "Luka Doncic" :> << "l", "u", "k", "a", " ", "d", "o", "n", "c", "i", "c" >>
    @@ "Al" :> << "a", "l" >>
    @@ "A.J. Green" :> << "a", ".", "j", ".", " ", "g", "r", "e", "e", "n" >>
    @@ "" :> << >>

\* line 87
skip_keywords ==
    { << "G", "O", "B", "L", "I", "N" >>,
      << "D", "E", "M", "O", "N" >>,
      << "F", "L", "A", "S", "H" >>,
      << "S", "P", "E", "C", "I", "A", "L" >>,
      << "B", "O", "O", "S", "T" >> }

\* lines 136-139
bad_keywords ==
    { << "C", "O", "M", "B", "O" >>,
      << "F", "A", "N", "T", "A", "S", "Y" >>,
      << "T", "U", "R", "N", "O", "V", "E", "R" >>,
      << "1", "S", "T" >>,
      << "H", "A", "L", "F" >>,
      << "B", "L", "O", "C", "K" >>,
      << "S", "T", "E", "A", "L" >>,
      << "S", "C", "O", "R", "E" >>,
      << "T", "O" >>,
      << "D", "E", "F" >>,
      << "B", "L", "K" >>,
      << "S", "T", "L" >> }

\* line 144, each as bad.lower()
bad_names ==
    { << "a", ".", "j", ".", " ", "g", "r", "e", "e", "n" >>,
      << "t", "w", "o", "-", "w", "a", "y" >>,
      << "u", "n", "s", "i", "g", "n", "e", "d" >>,
      << "i", "n", "a", "c", "t", "i", "v", "e" >>,
      << "e", "x", "h", "i", "b", "i", "t", " ", "1", "0" >>,
      << "g", " ", "l", "e", "a", "g", "u", "e" >>,
      << "t", "b", "d" >>,
      << "t", "e", "s", "t" >> }

\* kw in text
Contains(text, kw) ==
    \E i \in 1..(Len(text) - Len(kw) + 1) :
        SubSeq(text, i, i + Len(kw) - 1) = kw

\* str.upper() of the raw texts of the feed
UpperText(s) ==
    CASE s = "Points"           -> "POINTS"
      [] s = "Rebounds"         -> "REBOUNDS"
      [] s = "Assists"          -> "ASSISTS"
      [] s = "Pts+Rebs"         -> "PTS+REBS"
      [] s = "Fantasy Score"    -> "FANTASY SCORE"
      [] s = "Goblin special"   -> "GOBLIN SPECIAL"
      [] s = "standard"         -> "STANDARD"
      [] s = "demon"            -> "DEMON"
      [] OTHER                  -> s

\* lines 112-128: stat_map.get(stat_type, stat_type)
stat_map(stat_type) ==
    CASE stat_type = "POINTS"      -> "PTS"
      [] stat_type = "REBOUNDS"    -> "REB"
      [] stat_type = "ASSISTS"     -> "AST"
      [] stat_type = "PTS+REB+AST" -> "PRA"
      [] stat_type = "PTS+REB"     -> "PR"
      [] stat_type = "PTS+AST"     -> "PA"
      [] stat_type = "REB+AST"     -> "REB+AST"
      [] stat_type = "THREES"      -> "FG3M"
      [] stat_type = "3-PT MADE"   -> "FG3M"
      [] OTHER                     -> stat_type

\* player_name.strip() == ""
IsBlank(name) == \A i \in 1..Len(LowerChars[name]) : LowerChars[name][i] = " "

\* One projection of data["data"] with the player it refers to.
Proj(player, stat_type, line_score) ==
    [player |-> player, stat_type |-> stat_type, line_score |-> line_score,
     is_promo |-> FALSE, flash_sale |-> FALSE, description |-> "",
     odds_type |-> "standard", league |-> "NBA", league_id |-> 7]

\* lines 73-152: whether the loop body reaches props.append
KeepsProjection(proj) ==
    LET description == UpperText(proj.description)
        odds_type == UpperText(proj.odds_type)
        stat_type == UpperText(proj.stat_type)
        league_name == UpperText(proj.league)
        stat == stat_map(stat_type)
    IN  /\ ~proj.is_promo
        /\ ~proj.flash_sale
        /\ ~\E kw \in skip_keywords : Contains(UpperChars[description], kw)
        /\ ~(odds_type # "" /\ odds_type \notin {"", "STANDARD", "NORMAL"})
        /\ ~(~Contains(UpperChars[league_name], << "N", "B", "A" >>)
                /\ proj.league_id # 7)
        /\ stat \in allowed
        /\ ~\E b \in bad_keywords : Contains(UpperChars[stat_type], b)
        /\ ~(\/ proj.line_score = 0
             \/ proj.player = ""
             \/ IsBlank(proj.player)
             \/ \E bad \in bad_names : Contains(LowerChars[proj.player], bad))

\* lines 154-159
PropOf(proj) ==
    Row(proj.player, stat_map(UpperText(proj.stat_type)), proj.line_score)

\* Projections the response is drawn from.
RawFeed ==
    { Proj("LeBron James", "Points", 40),
      Proj("LeBron James", "Points", 44),
      Proj("LeBron James", "Points", 8),
      Proj("LeBron James", "Points", 0),
      Proj("LeBron James", "PTS+REB", 54),
      Proj("LeBron James", "Pts+Rebs", 54),
      Proj("Luka Doncic", "Points", 46),
      Proj("Luka Doncic", "Assists", 3),
      Proj("Luka Doncic", "Rebounds", 100),
      Proj("Al", "Points", 40),
      Proj("A.J. Green", "Points", 40),
      [Proj("LeBron James", "Points", 42) EXCEPT !.is_promo = TRUE],
      [Proj("LeBron James", "Points", 42) EXCEPT !.flash_sale = TRUE],
      [Proj("LeBron James", "Points", 42) EXCEPT
            !.description = "Goblin special"],
      [Proj("LeBron James", "Points", 42) EXCEPT !.odds_type = "demon"],
      [Proj("LeBron James", "Points", 42) EXCEPT
            !.league = "NFL", !.league_id = 9] }

\* Items of the response the loop consumes.
MaxFeed == 3

\* DataFrame.groupby sorts the groups by key: Python's order of the strings.
PlayerOrder ==
    << "", "A.J. Green", "Al", "LeBron James", "Luka Doncic" >>

StatOrder == << "AST", "FG3M", "PA", "PR", "PRA", "PTS", "REB", "REB+AST" >>

IndexIn(seq, x) == CHOOSE i \in 1..Len(seq) : seq[i] = x

\* The place of the row's (player, stat) key among the sorted keys.
KeyRank(row) ==
    Len(StatOrder) * IndexIn(PlayerOrder, row.player)
        + IndexIn(StatOrder, row.stat)

RECURSIVE Ascending(_)
Ascending(S) ==
    IF S = {} THEN << >>
    ELSE LET m == MinOf(S) IN << m >> \o Ascending(S \ {m})

\* df[df.apply(pred, axis=1)]
Filter(rows, pred(_)) == SelectSeq(rows, pred)

\* The rows of one group, in the order of the DataFrame.
GroupAt(rows, rank) == Filter(rows, LAMBDA r : KeyRank(r) = rank)

group_result_all_mode_rows(g, most_common) ==
    IF Len(g) > 1 /\ most_common.count >= 2
    THEN Filter(g, LAMBDA r : r.line = most_common.value)
    ELSE << select_main_line(g, most_common).row >>

\* lines 284-288: the rows .apply(select_main_line) contributes for a group
group_result(g, most_common) == << select_main_line(g, most_common).row >>

\* lines 284-288: result_df, one of the lists the choice among tied modes
\* allows
RECURSIVE ApplyGroups(_, _)
ApplyGroups(rows, ranks) ==
    IF ranks = << >> THEN { << >> }
    ELSE LET g == GroupAt(rows, Head(ranks)) IN
         { group_result(g, most_common) \o rest :
              most_common \in value_counts_head(LinesOf(g)),
              rest \in ApplyGroups(rows, Tail(ranks)) }

\* line 300
final_sanity(p) == p.line > 0 /\ Len(LowerChars[p.player]) > 2

\* lines 175-303: the lists the function can return for the list props
deduplicate(ps) ==
    IF ps = << >> THEN { << >> }
    ELSE LET df1 == Filter(ps, is_likely_main_board)
             df2 == Filter(df1, is_main_board_line)
             keys == Ascending({KeyRank(df2[i]) : i \in 1..Len(df2)})
         IN  { Filter(result_df, final_sanity) :
                  result_df \in ApplyGroups(df2, keys) }

\* lines 36-49: the request fails, the function returns []
ResponseError ==
    /\ fetchPc = "request"
    /\ fetchPc' = "done"
    /\ returned' = << >>
    /\ UNCHANGED << feed, props >>
    /\ FetchFrame

\* lines 37-41
ResponseOk ==
    /\ fetchPc = "request"
    /\ fetchPc' = "loop"
    /\ UNCHANGED << feed, props, returned >>
    /\ FetchFrame

\* lines 65-159: one iteration of the loop over data["data"]
LoopBody ==
    /\ fetchPc = "loop"
    /\ Len(feed) < MaxFeed
    /\ \E proj \in RawFeed :
          /\ feed' = Append(feed, proj)
          /\ props' = IF KeepsProjection(proj)
                      THEN Append(props, PropOf(proj)) ELSE props
    /\ UNCHANGED << fetchPc, returned >>
    /\ FetchFrame

\* lines 161-303: the response is exhausted
Deduplicate ==
    /\ fetchPc = "loop"
    /\ returned' \in deduplicate(props)
    /\ fetchPc' = "done"
    /\ UNCHANGED << feed, props >>
    /\ FetchFrame

-----------------------------------------------------------------------------
(* auto_prop_scraper.main: the batch run.  A projection is a rational      *)
(* number of points; an EV is an integer count of 1/10000 of the stake     *)
(* (hundredths of a cent per unit staked).                                 *)

\* Props of a batch.
MaxBatch == 3

\* line 426
TopN == 220

\* What fetch_prizepicks_props can hand to main: rows with distinct (player,
\* stat), in the order of their keys.
CanonProps ==
    << Row("LeBron James", "PR", 54), Row("LeBron James", "PTS", 40),
       Row("Luka Doncic", "AST", 16), Row("Luka Doncic", "FG3M", 5) >>

RECURSIVE SubSeqsOf(_)
SubSeqsOf(seq) ==
    IF seq = << >> THEN { << >> }
    ELSE LET rest == SubSeqsOf(Tail(seq))
         IN  rest \cup { << Head(seq) >> \o r : r \in rest }

Batches == { b \in SubSeqsOf(CanonProps) : Len(b) <= MaxBatch }

\* The line of a prop in points, as a rational.
LineRat(prop) == Rat(prop.line, 2)

\* analyze_single_prop(player, stat, line, odds, settings, debug_mode=False)
\* as main sees it: it raises an Exception (no log for the player, a stat
\* that is missing), returns nothing, returns a result whose fields are not
\* numbers (the comparison or the formatting of lines 373-391 then raises),
\* or returns a result.
\* The projections: 0.9 over the line, 0.6 under it, five times the line
\* and a quarter of it.
ProjectionsFor(prop) ==
    { Rat(5 * prop.line + 9, 10), Rat(5 * prop.line - 6, 10),
      Rat(5 * prop.line, 2), Rat(prop.line, 8) }

EvVals == { -455, 125, 310 }

AnalyzeOutcomes(prop) ==
    { [kind |-> "raise"], [kind |-> "none"], [kind |-> "malformed"] }
        \cup { [kind |-> "ok", projection |-> pr, ev |-> e] :
                  pr \in ProjectionsFor(prop), e \in EvVals }

RatAdd(a, b) == Rat(a.n * b.d + b.n * a.d, a.d * b.d)

\* the projection brought back to the band's nearer end
clamp_projection_to_band(proj, line) ==
    IF RatLt(RatMul(line, Rat(2, 1)), proj) THEN RatMul(line, Rat(2, 1))
    ELSE IF RatLt(proj, RatMul(line, Rat(1, 2))) THEN RatMul(line, Rat(1, 2))
    ELSE proj

\* lines 372-374
clamp_projection(proj, line) ==
    IF RatLt(RatMul(line, Rat(2, 1)), proj) \/ RatLt(proj, RatMul(line, Rat(1, 2)))
    THEN RatMul(RatAdd(proj, line), Rat(1, 2))
    ELSE proj

\* line 384 then line 403: f"{ev*100:+.1f}" read back as a float, a count of
\* tenths of a cent; a tie goes to the even digit (exact for the decimal
\* value; a float's tie is decided by its binary expansion).
ev_cents(e) ==
    LET q == e \div 10
        r == e % 10
    IN  IF r > 5 \/ (r = 5 /\ q % 2 = 1) THEN q + 1 ELSE q

\* lines 376-392
ResultRow(prop, res) ==
    [Player |-> prop.player, Stat |-> prop.stat, Line |-> prop.line,
     Odds |-> prop.odds,
     Projection |-> clamp_projection(res.projection, LineRat(prop)),
     EV |-> ev_cents(res.ev)]

\* every row passes with an edge of 0.5
is_strong_flat(row) ==
    LET delta == RatSub(row.Projection, Rat(row.Line, 2))
    IN  RatLe(Rat(1, 2), Rat(Abs(delta.n), delta.d))

\* lines 408-417: Delta against the stat's threshold
is_strong(row) ==
    LET delta == RatSub(row.Projection, Rat(row.Line, 2))
        Delta == Rat(Abs(delta.n), delta.d)
    IN  IF row.Stat \in {"PTS", "PRA"} THEN RatLe(Rat(1, 1), Delta)
        ELSE IF row.Stat \in {"REB", "AST", "REB+AST"}
        THEN RatLe(Rat(8, 10), Delta)
        ELSE IF row.Stat \in {"FG3M"} THEN RatLe(Rat(5, 10), Delta)
        ELSE RatLe(Rat(1, 1), Delta)

\* line 425: sort_values("EV_numeric", ascending=False) with the default
\* sort, which is not stable: rows of equal EV come in any order.  The
\* orders are built row by row, each row going to any place that keeps the
\* list descending.
InsertByEv(sorted, row) ==
    LET above == Cardinality({ i \in 1..Len(sorted) : sorted[i].EV > row.EV })
        notBelow == Cardinality({ i \in 1..Len(sorted) : sorted[i].EV >= row.EV })
    IN  { SubSeq(sorted, 1, k) \o << row >> \o SubSeq(sorted, k + 1, Len(sorted)) :
            k \in above..notBelow }

\* The orders of `orders` with rows[lo..hi] put in, one half of the rows
\* after the other.
RECURSIVE InsertRows(_, _, _, _)
InsertRows(orders, rows, lo, hi) ==
    IF lo > hi THEN orders
    ELSE IF lo = hi
    THEN UNION { InsertByEv(sorted, rows[lo]) : sorted \in orders }
    ELSE LET mid == (lo + hi) \div 2
             first == InsertRows(orders, rows, lo, mid)
         IN  IF first = {} THEN {} ELSE InsertRows(first, rows, mid + 1, hi)

SortedByEv(rows, n) == InsertRows({ << >> }, rows, 1, n)

\* the whole frame
head_keep_all(rows, n) == rows

\* line 426: df.head(220)
head(rows, n) == SubSeq(rows, 1, IF Len(rows) < n THEN Len(rows) ELSE n)

\* lines 355-359: no props, a message and return
NoProps ==
    /\ mainPc = "start"
    /\ batch = << >>
    /\ mainPc' = "done"
    /\ report' = [kind |-> "no_props"]
    /\ UNCHANGED << batch, cursor, outcomes, results >>
    /\ MainFrame

\* lines 361-365
StartLoop ==
    /\ mainPc = "start"
    /\ batch # << >>
    /\ mainPc' = "loop"
    /\ cursor' = 1
    /\ results' = << >>
    /\ UNCHANGED << batch, outcomes, report >>
    /\ MainFrame

AnalyzePropAbortOnError ==
    /\ mainPc = "loop"
    /\ cursor <= Len(batch)
    /\ \E res \in AnalyzeOutcomes(batch[cursor]) :
          /\ outcomes' = Append(outcomes, res)
          /\ results' = IF res.kind = "ok"
                        THEN Append(results, ResultRow(batch[cursor], res))
                        ELSE results
          /\ cursor' = IF res.kind \in {"raise", "malformed"}
                       THEN Len(batch) + 1 ELSE cursor + 1
    /\ UNCHANGED << batch, mainPc, report >>
    /\ MainFrame

\* lines 365-396: one iteration; try / except Exception around the
\* valuation and the append, the append being the last statement of the try
AnalyzeProp ==
    /\ mainPc = "loop"
    /\ cursor <= Len(batch)
    /\ \E res \in AnalyzeOutcomes(batch[cursor]) :
          /\ outcomes' = Append(outcomes, res)
          /\ results' = IF res.kind = "ok"
                        THEN Append(results, ResultRow(batch[cursor], res))
                        ELSE results
    /\ cursor' = cursor + 1
    /\ UNCHANGED << batch, mainPc, report >>
    /\ MainFrame

\* lines 398-400: the loop is over and nothing was collected
NoResults ==
    /\ mainPc = "loop"
    /\ cursor > Len(batch)
    /\ results = << >>
    /\ mainPc' = "done"
    /\ report' = [kind |-> "no_results"]
    /\ UNCHANGED << batch, cursor, outcomes, results >>
    /\ MainFrame

\* lines 402-438: filter the weak edges, sort by EV, keep the first 220,
\* export and print
ExportResults ==
    /\ mainPc = "loop"
    /\ cursor > Len(batch)
    /\ results # << >>
    /\ LET df == Filter(results, is_strong)
       IN  \E sorted \in SortedByEv(df, Len(df)) :
              report' = [kind |-> "exported", rows |-> head(sorted, TopN)]
    /\ mainPc' = "done"
    /\ UNCHANGED << batch, cursor, outcomes, results >>
    /\ MainFrame

-----------------------------------------------------------------------------
(* ProjectionModel: prop_ev.l20_weighted_mean and grade_probabilities      *)
(* (lines 176-208).  A game log is a DataFrame [cols, rows]: cols the set  *)
(* of its column names, rows a sequence of functions from cols to values.  *)
(* A value is a whole number of the stat, or NaN for a missing entry.      *)

\* a missing entry of the log (NaN); stats are never negative
NaN == -1

\* runs of equal games a log is made of
MaxRuns == 2

\* vals.tail(20), line 180
L20 == 20

RECURSIVE GCD(_, _)
GCD(a, b) == IF b = 0 THEN a ELSE GCD(b, a % b)

Reduce(r) ==
    LET g == GCD(Abs(r.n), r.d)
    IN  Rat(r.n \div g, r.d \div g)

\* a product in lowest terms, cancelling across before multiplying
Times(a, b) ==
    LET x == Reduce(Rat(a.n, b.d))
        y == Reduce(Rat(b.n, a.d))
    IN  Rat(x.n * y.n, x.d * y.d)

BaseCols == {"PTS", "REB", "AST", "FG3M", "MIN"}

GameRow(pts, reb, ast, fg3m, min) ==
    [c \in BaseCols |->
        CASE c = "PTS" -> pts [] c = "REB" -> reb [] c = "AST" -> ast
          [] c = "FG3M" -> fg3m [] OTHER -> min]

\* pd.to_numeric(..., errors="coerce").fillna(0) on one value
fillna0(v) == IF v = NaN THEN 0 ELSE v

\* the + of two Series, entry by entry: NaN where either is missing
AddValues(a, b) == IF a = NaN \/ b = NaN THEN NaN ELSE a + b

\* df[c]
Column(df, c) == [i \in 1..Len(df.rows) |-> df.rows[i][c]]

\* df[c] = values
SetColumn(df, c, values) ==
    [cols |-> df.cols \cup {c},
     rows |-> [i \in 1..Len(df.rows) |->
                 [k \in df.cols \cup {c} |->
                     IF k = c THEN values[i] ELSE df.rows[i][k]]]]

RECURSIVE SumTo(_, _)
SumTo(vals, n) == IF n = 0 THEN 0 ELSE SumTo(vals, n - 1) + fillna0(vals[n])

RECURSIVE SumSqTo(_, _)
SumSqTo(vals, n) ==
    IF n = 0 THEN 0
    ELSE SumSqTo(vals, n - 1) + fillna0(vals[n]) * fillna0(vals[n])

\* vals.tail(k)
tail(vals, k) ==
    SubSeq(vals, IF Len(vals) > k THEN Len(vals) - k + 1 ELSE 1, Len(vals))

\* Series.mean() after fillna(0)
MeanOf(vals) == Reduce(Rat(SumTo(vals, Len(vals)), Len(vals)))

\* the recent games weighed beyond the whole: 1.6 * L20 - 0.6 * SEASON
l20_weighted_mean_overweight(vals) ==
    IF Len(vals) = 0 THEN Rat(0, 1)
    ELSE Reduce(RatSub(RatMul(Rat(8, 5), MeanOf(tail(vals, L20))),
                       RatMul(Rat(3, 5), MeanOf(vals))))

\* lines 176-182
l20_weighted_mean(vals) ==
    IF Len(vals) = 0 THEN Rat(0, 1)
    ELSE LET season_mean == MeanOf(vals)
             last20 == tail(vals, L20)
             l20_mean == IF Len(last20) > 0 THEN MeanOf(last20) ELSE season_mean
         IN  Reduce(RatAdd(RatMul(Rat(3, 5), l20_mean),
                           RatMul(Rat(2, 5), season_mean)))

\* vals.std(ddof=0) squared: the population variance
PopVariance(vals) ==
    LET n == Len(vals)
        S == SumTo(vals, n)
    IN  Reduce(Rat(n * SumSqTo(vals, n) - S * S, n * n))

\* float(np.mean(vals > line)), the line in half points
FractionOver(vals, line) ==
    Reduce(Rat(Cardinality({ i \in 1..Len(vals) : 2 * fillna0(vals[i]) > line }),
               Len(vals)))

\* lines 186-192: the stat's column, derived into the caller's frame when
\* it is REB+AST or PRA; a KeyError when it (or a base column) is missing
derive_stat(df, stat_col) ==
    IF stat_col \in df.cols THEN [kind |-> "ok", df |-> df]
    ELSE IF stat_col = "REB+AST" /\ {"REB", "AST"} \subseteq df.cols
    THEN [kind |-> "ok",
          df |-> SetColumn(df, "REB+AST",
                    [i \in 1..Len(df.rows) |->
                        AddValues(df.rows[i]["REB"], df.rows[i]["AST"])])]
    ELSE IF stat_col = "PRA" /\ {"PTS", "REB", "AST"} \subseteq df.cols
    THEN [kind |-> "ok",
          df |-> SetColumn(df, "PRA",
                    [i \in 1..Len(df.rows) |->
                        AddValues(AddValues(df.rows[i]["PTS"], df.rows[i]["REB"]),
                                  df.rows[i]["AST"])])]
    ELSE [kind |-> "KeyError", df |-> df]

\* line 198: proj_mins / avg_mins if avg_mins > 0 else 1.0
minutes_mult(proj_mins, avg_mins) ==
    IF avg_mins > 0 THEN Rat(proj_mins, avg_mins) ELSE Rat(1, 1)

\* lines 199-200
injury_mult(injury_status) ==
    IF injury_status # "" /\ injury_status \notin {"active", "probable"}
    THEN Rat(9, 10) ELSE Rat(1, 1)

\* norm.cdf(x, loc, scale) at the points where the model evaluates it: unit
\* scale and x - loc a whole number z2 of half points.  The value to four
\* decimals, as a count of 1/10000.
norm_cdf_half(z2) ==
    LET upper == << 6915, 8413, 9332, 9772, 9938, 9987, 9998 >>
    IN  IF z2 = 0 THEN 5000
        ELSE IF z2 > 7 THEN 10000
        ELSE IF z2 > 0 THEN upper[z2]
        ELSE IF z2 < -7 THEN 0
        ELSE 10000 - upper[-z2]

\* the empirical part alone
blend_emp_only(p_norm4, p_emp) == p_emp

\* line 207: p_final = 0.8 * p_norm + 0.2 * p_emp, p_norm a count of 1/10000
blend(p_norm4, p_emp) ==
    Reduce(RatAdd(RatMul(Rat(4, 5), Rat(p_norm4, 10000)),
                  RatMul(Rat(1, 5), p_emp)))

\* lines 185-208.  The outcome carries the caller's frame as the call
\* leaves it.  p_final is given as its two parts: the empirical fraction
\* and the normal term 1 - norm.cdf(line, mean, std) by its arguments
\* (std by its square); p is the number where the normal term is one the
\* model evaluates, NoValue elsewhere.
grade_probabilities(df, stat_col, line, proj_mins, avg_mins, injury_status, dvp_mult) ==
    LET got == derive_stat(df, stat_col)
    IN  IF got.kind = "KeyError" THEN [kind |-> "KeyError", df |-> got.df]
        ELSE
        LET vals == [i \in 1..Len(got.df.rows) |->
                        fillna0(got.df.rows[i][stat_col])]
            n == Len(vals)
            var == IF n > 1 THEN PopVariance(vals) ELSE Rat(1, 1)
            mean == Times(Times(Times(l20_weighted_mean(vals),
                                      minutes_mult(proj_mins, avg_mins)),
                                injury_mult(injury_status)),
                          Rat(dvp_mult, NeutralMult))
            p_emp == IF n > 0 THEN FractionOver(vals, line) ELSE Rat(1, 2)
            z == RatSub(Rat(line, 2), mean)
            onGrid == var.n = var.d /\ (2 * z.n) % z.d = 0
        IN  [kind |-> "return", df |-> got.df, n |-> n, mean |-> mean,
             var |-> var, p_emp |-> p_emp,
             p |-> IF onGrid
                   THEN blend(10000 - norm_cdf_half((2 * z.n) \div z.d), p_emp)
                   ELSE NoValue]

\* The games a log is made of.
GamePool ==
    { GameRow(20, 5, 7, 2, 30), GameRow(31, NaN, 4, 0, 36),
      GameRow(NaN, 12, 0, 5, 12) }

RunLengths == { 1, L20 }

RECURSIVE Repeat(_, _)
Repeat(row, k) == IF k = 0 THEN << >> ELSE << row >> \o Repeat(row, k - 1)

RECURSIVE LogsOfRuns(_)
LogsOfRuns(k) ==
    IF k = 0 THEN { << >> }
    ELSE LET shorter == LogsOfRuns(k - 1)
         IN  shorter \cup
             { l \o Repeat(row, c) :
                 l \in shorter, row \in GamePool, c \in RunLengths }

\* A provider's log has the base columns, or lacks one (lines 140, 158).
ColumnSets == { BaseCols, BaseCols \ {"REB"} }

Frame(cols, rows) ==
    [cols |-> cols,
     rows |-> [i \in 1..Len(rows) |-> [c \in cols |-> rows[i][c]]]]

GameLogs == { Frame(cols, rows) : cols \in ColumnSets, rows \in LogsOfRuns(MaxRuns) }

\* The stat keys the selector emits, lines in half points, and the
\* multipliers of one call: neutral, more minutes, no average minutes,
\* a player who is out, a soft matchup.
LineArgs == { 0, 2, 41 }

Adjustments ==
    { [proj_mins |-> 30, avg_mins |-> 30, injury_status |-> "", dvp_mult |-> 3000],
      [proj_mins |-> 33, avg_mins |-> 30, injury_status |-> "active", dvp_mult |-> 3000],
      [proj_mins |-> 30, avg_mins |-> 0, injury_status |-> "out", dvp_mult |-> 3000],
      [proj_mins |-> 30, avg_mins |-> 30, injury_status |-> "", dvp_mult |-> 3300] }

\* One call of grade_probabilities on the caller's log.
CallGradeProbabilities ==
    /\ gradeOut = NoValue
    /\ LET out == grade_probabilities(log, gradeArgs.stat_col, gradeArgs.line,
                      gradeArgs.adj.proj_mins, gradeArgs.adj.avg_mins,
                      gradeArgs.adj.injury_status, gradeArgs.adj.dvp_mult)
       IN  /\ gradeOut' = [kind |-> out.kind] @@
                          (IF out.kind = "return"
                           THEN [n |-> out.n, mean |-> out.mean, var |-> out.var,
                                 p_emp |-> out.p_emp, p |-> out.p]
                           ELSE [error |-> gradeArgs.stat_col])
           /\ log' = out.df
    /\ UNCHANGED gradeArgs
    /\ GradeFrame

-----------------------------------------------------------------------------
(* GameLogStore: prop_ev.fetch_player_logs (lines 96-169).  Three try      *)
(* blocks, one per provider, each ending in return df or in its except     *)
(* Exception.  What a provider does is an input: the outcome of its block. *)

\* What a returned log is: its provider and its columns.
FetchedLog(provider, cols) == [kind |-> "log", provider |-> provider, cols |-> cols]

ReturnedNone == [kind |-> "None"]

PlayerNames == { "LeBron James", "Luka Doncic", "" }

\* lines 102-129: the search or the stats request fails, the player is not
\* found, there are no games, the file cannot be written, or the block
\* returns the log with the six renamed columns
BallDontLieOutcomes ==
    { [fails |-> "request"], [fails |-> "Player not found"],
      [fails |-> "No games"], [fails |-> "to_csv"],
      [ok |-> FetchedLog("BallDontLie", BaseCols \cup {"DATE"})] }

\* lines 132-146: read_html fails (no page, no table), the file cannot be
\* written, or the block returns the largest table cut to the base columns
\* it has
EspnOutcomes ==
    { [fails |-> "read_html"], [fails |-> "to_csv"] }
        \cup { [ok |-> FetchedLog("ESPN", cols)] :
                  cols \in { BaseCols, BaseCols \ {"FG3M"}, {} } }

\* lines 149-166: the name has no word (IndexError of split()[-1]),
\* read_html fails, the table has no REB column (KeyError of line 160), the
\* file cannot be written, or the block returns the table
BbrefOutcomes(name) ==
    IF name = "" THEN { [fails |-> "IndexError"] }
    ELSE { [fails |-> "read_html"], [fails |-> "KeyError"], [fails |-> "to_csv"] }
            \cup { [ok |-> FetchedLog("BBRef", cols)] :
                      cols \in { BaseCols, BaseCols \ {"FG3M"} } }

Succeeds(outcome) == "ok" \in DOMAIN outcome

\* line 98: os.makedirs(save_dir, exist_ok=True), outside every try
MakeDirs ==
    /\ logsPc = "start"
    /\ \/ logsPc' = "bdl" /\ UNCHANGED logsOut
       \/ logsPc' = "raised" /\ logsOut' = [kind |-> "OSError"]
    /\ UNCHANGED << player_name, attempts >>
    /\ LogsFrame

\* The end of one try block: the provider's outcome is recorded; the log is
\* returned, or the except clause prints and the function goes on to `next`.
EndOfTry(provider, outcome, next) ==
    /\ attempts' = Append(attempts, [provider |-> provider, outcome |-> outcome])
    /\ IF Succeeds(outcome)
       THEN logsPc' = "done" /\ logsOut' = outcome.ok
       ELSE logsPc' = next /\ UNCHANGED logsOut

\* lines 102-129
TryBallDontLie ==
    /\ logsPc = "bdl"
    /\ \E outcome \in BallDontLieOutcomes : EndOfTry("BallDontLie", outcome, "espn")
    /\ UNCHANGED player_name
    /\ LogsFrame

\* the backup's log is dropped and the third provider tried all the same
TryEspnFallsThrough ==
    /\ logsPc = "espn"
    /\ \E outcome \in EspnOutcomes :
          /\ attempts' = Append(attempts, [provider |-> "ESPN", outcome |-> outcome])
          /\ logsPc' = "bbref"
          /\ UNCHANGED logsOut
    /\ UNCHANGED player_name
    /\ LogsFrame

\* lines 132-146
TryEspn ==
    /\ logsPc = "espn"
    /\ \E outcome \in EspnOutcomes : EndOfTry("ESPN", outcome, "bbref")
    /\ UNCHANGED player_name
    /\ LogsFrame

\* lines 149-166
TryBbref ==
    /\ logsPc = "bbref"
    /\ \E outcome \in BbrefOutcomes(player_name) : EndOfTry("BBRef", outcome, "none")
    /\ UNCHANGED player_name
    /\ LogsFrame

\* lines 168-169
ReturnNone ==
    /\ logsPc = "none"
    /\ logsPc' = "done"
    /\ logsOut' = ReturnedNone
    /\ UNCHANGED << player_name, attempts >>
    /\ LogsFrame

-----------------------------------------------------------------------------
(* dvp_updater.load_dvp_data: the matchup-rank table behind a file cache.   *)

CACHE_HOURS == 12

MaxLookups == 2

\* The file data/dvp_cache.json as _load_cache meets it: absent, present
\* but not the JSON object it expects (json.load or ["dvp"] raises), or a
\* JSON object with a "dvp" member.  age is the whole hours since its mtime.
CacheFile(state, age, dvp) == [state |-> state, age |-> age, dvp |-> dvp]

CacheAges == {0, CACHE_HOURS - 1, CACHE_HOURS, CACHE_HOURS + 1}

\* What the file holds under "dvp": a table _save_cache wrote, or what other
\* hands left there ({} or a number).
CachedTables == {ScrapedTable(10), ScrapedTable(3000), EmptyDict, PyNum(1)}

CacheFiles ==
    {CacheFile("missing", 0, PyNone)}
        \cup {CacheFile("unreadable", a, PyNone) : a \in CacheAges}
        \cup {CacheFile("json", a, t) : a \in CacheAges, t \in CachedTables}

\* _fetch_dvp_from_hashtag when no row was extracted (request failed, table
\* not found, every row skipped): the structure of lines 54-55, all empty.
NothingScraped ==
    PyDict([t \in {"LAL", "BOS"} |->
        PyDict([q \in {"PG", "C"} |-> EmptyDict])])

\* _fetch_dvp_from_hashtag never raises (lines 172-173); it returns the
\* structure with whatever was filled in.
FetchResults == {ScrapedTable(20), ScrapedTable(3000), NothingScraped}

\* Line 223: sum(len(dvp[team][pos]) for team in dvp for pos in dvp[team]).
total_entries(dvp) ==
    Cardinality(UNION { UNION { { << t, q, k >> :
                                    k \in DOMAIN dvp.val[t].val[q].val } :
                                q \in DOMAIN dvp.val[t].val } :
                        t \in DOMAIN dvp.val })

\* _load_cache with its age test left out.
_load_cache_any_age(file) ==
    IF file.state = "json" THEN file.dvp ELSE PyNone

\* _load_cache: None when the file is absent, when it is CACHE_HOURS old or
\* older, and when reading it raises (the except of line 192).
_load_cache(file) ==
    IF file.state = "missing"
    THEN PyNone
    ELSE IF file.age < CACHE_HOURS
         THEN IF file.state = "unreadable" THEN PyNone ELSE file.dvp
         ELSE PyNone

\* _save_cache: the file rewritten, its mtime now.
_save_cache(dvp) == CacheFile("json", 0, dvp)

\* _save_cache is outside every try: makedirs or open may raise and leave
\* the file as it was, the dump may raise and leave it cut short.
SaveFailures(file) == {file, CacheFile("unreadable", 0, PyNone)}

\* load_dvp_data(force_refresh), as called by prop_ev.py:13 (no argument)
\* and by the updater run on its own (line 240, force_refresh=True).
LoadDvpData ==
    /\ loadPc = "import"
    /\ LET cached == IF force_refresh THEN PyNone ELSE _load_cache(cache)
       IN  IF ~force_refresh /\ Truthy(cached)
           THEN /\ dvp_data' = cached
                /\ loadPc' = "run"
                /\ UNCHANGED << cache, fetches >>
           ELSE \E dvp \in FetchResults :
                  /\ fetches' = Append(fetches, dvp)
                  /\ IF total_entries(dvp) > 0
                     THEN \/ /\ cache' = _save_cache(dvp)
                             /\ dvp_data' = dvp
                             /\ loadPc' = "run"
                          \/ /\ cache' \in SaveFailures(cache)
                             /\ loadPc' = "raised"
                             /\ UNCHANGED dvp_data
                     ELSE /\ dvp_data' = EmptyDict
                          /\ loadPc' = "run"
                          /\ UNCHANGED cache
    /\ UNCHANGED << force_refresh, lookups, dvpArgs, dvpOut >>
    /\ LoadFrame

LookupArgs ==
    [opp : {PyStr("lal"), PyStr("BOS")}, pos : {PyStr("pg")},
     stat : {PyStr("pts")}]

\* One get_dvp_multiplier call of the run: it reads the module-level
\* dvp_data (prop_ev.py:319).
Lookup ==
    /\ loadPc = "run"
    /\ ~force_refresh
    /\ Len(lookups) < MaxLookups
    /\ \E a \in LookupArgs :
         /\ dvpArgs' = a
         /\ dvpOut' = get_dvp_multiplier(dvp_data, a.opp, a.pos, a.stat)
    /\ lookups' = Append(lookups, dvp_data)
    /\ UNCHANGED << dvp_data, cache, force_refresh, fetches, loadPc >>
    /\ LoadFrame

\* The updater, run on its own while the program runs, rewrites the file.
RefreshByUpdater ==
    /\ loadPc = "run"
    /\ ~force_refresh
    /\ \E dvp \in FetchResults :
         /\ total_entries(dvp) > 0
         /\ cache # _save_cache(dvp)
         /\ cache' = _save_cache(dvp)
    /\ UNCHANGED << dvp_data, dvpArgs, dvpOut, force_refresh, fetches,
                    loadPc, lookups >>
    /\ LoadFrame

-----------------------------------------------------------------------------
(* Idle values of the other components, filled in by each specification.   *)

IdleDvp ==
    /\ dvp_data = NoValue
    /\ dvpArgs = NoValue
    /\ dvpOut = NoValue

IdleGroup ==
    /\ group = << >>
    /\ selected = NoValue

IdleFetch ==
    /\ feed = << >>
    /\ props = << >>
    /\ fetchPc = "idle"
    /\ returned = << >>

IdleMain ==
    /\ batch = << >>
    /\ cursor = 0
    /\ outcomes = << >>
    /\ results = << >>
    /\ mainPc = "idle"
    /\ report = NoValue

IdleGrade ==
    /\ log = NoValue
    /\ gradeArgs = NoValue
    /\ gradeOut = NoValue

IdleLogs ==
    /\ player_name = ""
    /\ attempts = << >>
    /\ logsPc = "idle"
    /\ logsOut = NoValue

IdleLoad ==
    /\ cache = NoValue
    /\ force_refresh = FALSE
    /\ fetches = << >>
    /\ loadPc = "idle"
    /\ lookups = << >>

-----------------------------------------------------------------------------
(* Specification of the matchup multiplier.                                *)

InitDvp ==
    /\ dvp_data \in DvpTables
    /\ dvpArgs \in [opp : OppArgs, pos : PosArgs, stat : StatArgs]
    /\ dvpOut = NoValue
    /\ IdleOdds /\ IdleGroup /\ IdleFetch /\ IdleMain
    /\ IdleGrade /\ IdleLogs /\ IdleLoad

NextDvp == CallGetDvpMultiplier

SpecDvp == InitDvp /\ [][NextDvp]_vars

DvpCalled == dvpOut # NoValue

ArgKey(a) == IF a.tag = "str" THEN Upper(a.val) ELSE ""

\* The rank the table holds for the call's (team, position, stat), if any.
RankPresent ==
    LET T == ArgKey(dvpArgs.opp)
        P == ArgKey(dvpArgs.pos)
        S == ArgKey(dvpArgs.stat)
    IN  /\ dvp_data.tag = "dict"
        /\ T \in DOMAIN dvp_data.val
        /\ dvp_data.val[T].tag = "dict"
        /\ P \in DOMAIN dvp_data.val[T].val
        /\ dvp_data.val[T].val[P].tag = "dict"
        /\ S \in DOMAIN dvp_data.val[T].val[P].val
        /\ dvp_data.val[T].val[P].val[S].tag = "num"

TheRank ==
    dvp_data.val[ArgKey(dvpArgs.opp)].val[ArgKey(dvpArgs.pos)]
        .val[ArgKey(dvpArgs.stat)].val

\* C6: for every rank present in the matchup table, get_dvp_multiplier
\* returns 1.10 - (rank - 1) / 300; rank 1 gives 1.10 and rank 151 gives 0.60.
C6_MultiplierFormula ==
    (DvpCalled /\ RankPresent) =>
        /\ dvpOut.kind = "return"
        /\ 10 * dvpOut.val = 33000 - 10 * (TheRank - 10)
        /\ TheRank = 10 => dvpOut.val = 3300
        /\ TheRank = 1510 => dvpOut.val = 1800

C6_Witness ==
    /\ DvpCalled /\ RankPresent
    /\ TheRank = 1510
    /\ dvpOut = Return(1800)

\* The call found a rank in the natural range 1 to 300.
NaturalRank == DvpCalled /\ RankPresent /\ 10 <= TheRank /\ TheRank <= 3000

\* C17 as stated: for ranks 1 to 300 the multiplier stays within
\* [0.80, 1.10].
C17_RangeAsStated ==
    NaturalRank => 2400 <= dvpOut.val /\ dvpOut.val <= 3300

\* C17, amended: for ranks 1 to 300 the multiplier 1.10 - (rank - 1) / 300
\* stays within [0.1033, 1.10] (31/300 at rank 300); it is within
\* [0.80, 1.10] exactly for the ranks 1 to 91.
C17_Range ==
    NaturalRank =>
        /\ dvpOut.kind = "return"
        /\ 310 <= dvpOut.val /\ dvpOut.val <= 3300
        /\ 2400 <= dvpOut.val <=> TheRank <= 910
        /\ TheRank = 3000 => dvpOut.val = 310

\* Rank 300: the multiplier is 31/300, about 0.103.
C17_Witness ==
    /\ NaturalRank
    /\ TheRank = 3000
    /\ dvpOut = Return(310)

\* C7: get_dvp_multiplier never raises, and returns exactly 1.00 whenever no
\* rank is found: absent or empty argument, unknown team, position or stat,
\* empty table, or a failure inside the lookup.
C7_NeverRaises ==
    DvpCalled =>
        /\ dvpOut.kind = "return"
        /\ ~RankPresent => dvpOut.val = NeutralMult

\* A lookup that fails inside the try block (the team's entry is null).
C7_Witness ==
    /\ DvpCalled
    /\ dvp_data = PyDict([t \in {"LAL"} |-> PyNone])
    /\ dvpArgs = [opp |-> PyStr("lal"), pos |-> PyStr("pg"),
                  stat |-> PyStr("pts")]
    /\ get_dvp_multiplier_body(dvp_data, dvpArgs.opp, dvpArgs.pos,
                               dvpArgs.stat) = Raise
    /\ dvpOut = Return(NeutralMult)

-----------------------------------------------------------------------------
(* Specification of select_main_line on one (player, stat) group.          *)

InitGroup ==
    /\ group \in Groups
    /\ selected = NoValue
    /\ IdleOdds /\ IdleDvp /\ IdleFetch /\ IdleMain
    /\ IdleGrade /\ IdleLogs /\ IdleLoad

NextGroup == ApplySelectMainLine

SpecGroup == InitGroup /\ [][NextGroup]_vars

Applied == selected # NoValue

GroupLinesSeq == LinesOf(group)

AllDistinct == \A i, j \in 1..Len(group) : i # j => GroupLinesSeq[i] # GroupLinesSeq[j]

FirstIndexIn(S) == CHOOSE i \in S : \A j \in S : i <= j

\* The rows whose line is a most frequent value of the group.
MostFrequentRows ==
    {i \in 1..Len(group) : \A j \in 1..Len(group) :
        CountOf(GroupLinesSeq, GroupLinesSeq[j])
            <= CountOf(GroupLinesSeq, GroupLinesSeq[i])}

\* C2: in a group of two or more candidates in which some line occurs at
\* least twice, select_main_line returns the first candidate (in group
\* order) whose line is a most frequent value: its line is a most frequent
\* value and no earlier candidate has that line; lines [20, 20, 22] select 20.
C2_ModeWins ==
    (Applied /\ Len(group) >= 2 /\ ~AllDistinct) =>
        /\ selected.idx \in MostFrequentRows
        /\ \A j \in 1..(selected.idx - 1) :
              GroupLinesSeq[j] # GroupLinesSeq[selected.idx]
        /\ selected.row = group[selected.idx]
        /\ GroupLinesSeq = << 40, 40, 44 >> => selected.row.line = 40

C2_Witness ==
    /\ Applied
    /\ GroupLinesSeq = << 40, 40, 44 >>
    /\ selected.idx = 1 /\ selected.row.line = 40

\* Distance (half points) of row i's line to the nearest typical value.
NearestTypical(i) ==
    LET T == Range(typical_values[group[1].stat])
    IN  CHOOSE d \in 0..200 :
            /\ \E t \in T : Abs(GroupLinesSeq[i] - t) = d
            /\ \A t \in T : Abs(GroupLinesSeq[i] - t) >= d

NearestRows ==
    {i \in 1..Len(group) :
        \A j \in 1..Len(group) : NearestTypical(i) <= NearestTypical(j)}

C3_Case ==
    /\ Applied /\ Len(group) >= 2 /\ AllDistinct
    /\ group[1].stat \in {"PTS", "REB", "AST", "PRA", "REB+AST", "FG3M"}

C3_Rule ==
    /\ DOMAIN typical_values = {"PTS", "REB", "AST", "PRA", "REB+AST", "FG3M"}
    /\ C3_Case =>
        /\ selected.idx = FirstIndexIn(NearestRows)
        /\ selected.row = group[selected.idx]

PtsExample == group[1].stat = "PTS" /\ GroupLinesSeq = << 42, 46, 54 >>

\* C3 (as stated): with all lines distinct and a typical-value list for the
\* stat, select_main_line returns the candidate at minimum distance to its
\* nearest typical value, first occurrence on a tie; PTS [21, 23, 27] -> 23.
C3_TypicalAsStated ==
    /\ C3_Rule
    /\ (C3_Case /\ PtsExample) => selected.row.line = 46

\* C3 (amended): the same rule; PTS [21, 23, 27] selects 21 (21 is 0.5 from
\* 20.5 and 23 is 0.5 from 22.5: a tie, which the first occurrence wins).
C3_Typical ==
    /\ C3_Rule
    /\ (C3_Case /\ PtsExample) => selected.row.line = 42

C3_Witness ==
    /\ C3_Case /\ PtsExample
    /\ NearestTypical(1) = 1 /\ NearestTypical(2) = 1 /\ NearestTypical(3) = 3
    /\ selected.idx = 1

\* The k-th smallest of the group's (distinct) lines.
KthLine(k) ==
    CHOOSE v \in Range(GroupLinesSeq) :
        Cardinality({x \in Range(GroupLinesSeq) : x <= v}) = k

\* Twice the median of the group's distinct lines.
TwiceMedian ==
    LET n == Len(group)
    IN  IF n % 2 = 1 THEN 2 * KthLine((n + 1) \div 2)
        ELSE KthLine(n \div 2) + KthLine(n \div 2 + 1)

MedianRows ==
    {i \in 1..Len(group) : \A j \in 1..Len(group) :
        Abs(2 * GroupLinesSeq[i] - TwiceMedian)
            <= Abs(2 * GroupLinesSeq[j] - TwiceMedian)}

\* C4: with all lines distinct and no typical-value list for the stat (PR,
\* PA), select_main_line returns the candidate closest to the median of the
\* group's lines, the first such candidate on a tie.
C4_MedianFallback ==
    /\ allowed \ DOMAIN typical_values = {"PR", "PA"}
    /\ (Applied /\ Len(group) >= 2 /\ AllDistinct
            /\ group[1].stat \in {"PR", "PA"}) =>
        /\ selected.idx = FirstIndexIn(MedianRows)
        /\ selected.row = group[selected.idx]

\* PR lines [20, 21, 23, 27]: median 22, 21 and 23 tie, 21 comes first.
C4_Witness ==
    /\ Applied
    /\ group[1].stat = "PR"
    /\ GroupLinesSeq = << 40, 42, 46, 54 >>
    /\ TwiceMedian = 88
    /\ selected.idx = 2

-----------------------------------------------------------------------------
(* Specification of fetch_prizepicks_props.                                *)

InitFetch ==
    /\ feed = << >>
    /\ props = << >>
    /\ fetchPc = "request"
    /\ returned = << >>
    /\ IdleOdds /\ IdleDvp /\ IdleGroup /\ IdleMain
    /\ IdleGrade /\ IdleLogs /\ IdleLoad

NextFetch == ResponseError \/ ResponseOk \/ LoopBody \/ Deduplicate

SpecFetch == InitFetch /\ [][NextFetch]_vars

KeyOf(row) == << row.player, row.stat >>

\* The candidates of the feed left after the provenance, category,
\* player-validity, outlier and range filters.
Survivors ==
    { PropOf(feed[i]) : i \in { k \in 1..Len(feed) :
        /\ KeepsProjection(feed[k])
        /\ is_likely_main_board(PropOf(feed[k]))
        /\ is_main_board_line(PropOf(feed[k])) } }

\* C1: the returned list never holds two entries with the same (player,
\* stat), and holds exactly one entry, a candidate of the group, for every
\* (player, stat) group with a candidate left after the filters whose
\* selected candidate passes the final sanity filter (a positive line, a
\* name of three or more characters).
C1_OnePerPlayerStat ==
    fetchPc = "done" =>
        /\ \A i, j \in 1..Len(returned) :
              i # j => KeyOf(returned[i]) # KeyOf(returned[j])
        /\ \A i \in 1..Len(returned) : returned[i] \in Survivors
        /\ { KeyOf(returned[i]) : i \in 1..Len(returned) }
              = { KeyOf(c) : c \in { x \in Survivors :
                                        x.line > 0 /\ Len(LowerChars[x.player]) > 2 } }

\* Two candidates of one group and one of another: two entries returned.
C1_Witness ==
    /\ fetchPc = "done"
    /\ Len(props) = 3
    /\ props[1].player = "LeBron James" /\ props[1].stat = "PTS"
    /\ props[2].player = "LeBron James" /\ props[2].stat = "PTS"
    /\ props[1].line # props[2].line
    /\ props[3].player = "Luka Doncic"
    /\ Len(returned) = 2
    /\ returned[1] = props[1]

\* The typical main-board interval of a stat, in half points.
TypicalInterval(stat) ==
    CASE stat = "PTS" -> << 10, 90 >>
      [] stat = "REB" -> << 2, 40 >>
      [] stat = "AST" -> << 2, 30 >>
      [] stat = "PRA" -> << 20, 120 >>
      [] stat = "PR" -> << 16, 100 >>
      [] stat = "PA" -> << 10, 80 >>
      [] stat = "REB+AST" -> << 4, 50 >>
      [] stat = "FG3M" -> << 1, 14 >>

\* C19: every prop the selector emits has a line inside the typical
\* main-board interval of its stat (PTS [5, 45], REB [1, 20], AST [1, 15],
\* PRA [10, 60], PR [8, 50], PA [5, 40], REB+AST [2, 25], FG3M [0.5, 7]);
\* each interval lies inside the outlier filter's band of the same stat
\* (no line of the interval is an outlier); and no emitted AST, REB or FG3M
\* prop has a half-point line below 2.0.
C19_LineBands ==
    /\ \A stat \in allowed :
          /\ stat \in DOMAIN line_ranges
          /\ line_ranges[stat] = TypicalInterval(stat)
          /\ HasOutlierThreshold(stat) =>
                \A line \in TypicalInterval(stat)[1]..TypicalInterval(stat)[2] :
                    ~outlier_thresholds(stat, line)
    /\ fetchPc = "done" =>
          \A i \in 1..Len(returned) :
              /\ returned[i].stat \in allowed
              /\ TypicalInterval(returned[i].stat)[1] <= returned[i].line
              /\ returned[i].line <= TypicalInterval(returned[i].stat)[2]
              /\ returned[i].stat \in {"AST", "REB", "FG3M"}
                    => ~(returned[i].line < 4 /\ returned[i].line % 2 = 1)

\* The feed held a PTS line of 4.0 (inside the outlier band, below the
\* interval), an AST line of 1.5 and a PTS line of 20.0: only the last is
\* emitted.
C19_Witness ==
    /\ fetchPc = "done"
    /\ \E i \in 1..Len(props) : props[i].stat = "PTS" /\ props[i].line = 8
    /\ \E i \in 1..Len(props) : props[i].stat = "AST" /\ props[i].line = 3
    /\ Len(returned) = 1
    /\ returned[1].stat = "PTS" /\ returned[1].line = 40

-----------------------------------------------------------------------------
(* Specification of the batch run.                                         *)

InitMain ==
    /\ batch \in Batches
    /\ cursor = 0
    /\ outcomes = << >>
    /\ results = << >>
    /\ mainPc = "start"
    /\ report = NoValue
    /\ IdleOdds /\ IdleDvp /\ IdleGroup /\ IdleFetch
    /\ IdleGrade /\ IdleLogs /\ IdleLoad

NextMain ==
    NoProps \/ StartLoop \/ AnalyzeProp \/ NoResults \/ ExportResults

SpecMain == InitMain /\ [][NextMain]_vars

\* The props valuated so far whose valuation gave a result, in batch order.
RECURSIVE Succeeded(_)
Succeeded(n) ==
    IF n = 0 THEN << >>
    ELSE Succeeded(n - 1)
            \o (IF outcomes[n].kind = "ok" THEN << batch[n] >> ELSE << >>)

\* C5: a failure while valuating one candidate never aborts the batch:
\* whatever the position of a failing candidate, the results are exactly the
\* candidates valuated with success so far, in order (the failed one is
\* left out, the earlier ones are kept), and the run ends only after every
\* candidate of the batch was valuated.
C5_FailureIsolated ==
    mainPc \in {"loop", "done"} /\ batch # << >> =>
        /\ Len(outcomes) = cursor - 1
        /\ Len(results) = Len(Succeeded(Len(outcomes)))
        /\ \A i \in 1..Len(results) :
              /\ results[i].Player = Succeeded(Len(outcomes))[i].player
              /\ results[i].Stat = Succeeded(Len(outcomes))[i].stat
              /\ results[i].Line = Succeeded(Len(outcomes))[i].line
        /\ mainPc = "done" => Len(outcomes) = Len(batch)

\* The second of three candidates fails; the first and the third are kept.
C5_Witness ==
    /\ mainPc = "done"
    /\ Len(batch) = 3
    /\ outcomes[1].kind = "ok"
    /\ outcomes[2].kind = "raise"
    /\ outcomes[3].kind = "ok"
    /\ Len(results) = 2
    /\ results[1].Player = batch[1].player /\ results[1].Stat = batch[1].stat
    /\ results[2].Player = batch[3].player /\ results[2].Stat = batch[3].stat

Exported == report # NoValue /\ report.kind = "exported"

\* |Projection - Line| of a reported row, in twentieths of a point times the
\* projection's denominator, against an edge given in tenths.
EdgeAtLeast(row, tenths) ==
    10 * Abs(2 * row.Projection.n - row.Line * row.Projection.d)
        >= 2 * tenths * row.Projection.d

\* C14: every entry of the final reported result set has
\* |projection - line| >= the minimum edge of its stat, the projection
\* being the reported (post-clamp) one: 1.0 for PTS and PRA, 0.8 for REB,
\* AST and REB+AST, 0.5 for FG3M, 1.0 for any other stat.
C14_MinimumEdge ==
    Exported =>
        \A i \in 1..Len(report.rows) :
            LET row == report.rows[i]
            IN  /\ row.Stat \in {"PTS", "PRA"} => EdgeAtLeast(row, 10)
                /\ row.Stat \in {"REB", "AST", "REB+AST"} => EdgeAtLeast(row, 8)
                /\ row.Stat = "FG3M" => EdgeAtLeast(row, 5)
                /\ row.Stat \notin {"PTS", "PRA", "REB", "AST", "REB+AST", "FG3M"}
                      => EdgeAtLeast(row, 10)

\* An AST row 0.9 over its line is reported while a PTS row 0.9 over its
\* line and an FG3M row are valuated in the same run: the PTS row is
\* dropped, the FG3M row 0.6 under its line is kept.
C14_Witness ==
    /\ Exported
    /\ Len(results) = 3
    /\ \E i \in 1..3 : results[i].Stat = "PTS" /\ ~EdgeAtLeast(results[i], 10)
                          /\ EdgeAtLeast(results[i], 8)
    /\ \E i \in 1..Len(report.rows) :
          report.rows[i].Stat = "AST" /\ ~EdgeAtLeast(report.rows[i], 10)
    /\ \E i \in 1..Len(report.rows) :
          report.rows[i].Stat = "FG3M" /\ ~EdgeAtLeast(report.rows[i], 8)
    /\ Len(report.rows) = 2

\* The place in results of the n-th candidate's row, when it has one.
ResultIndex(n) == Len(Succeeded(n))

\* C16: for every successfully valuated candidate the reported projection
\* is the model's when line/2 <= projection <= 2*line and the midpoint
\* (projection + line) / 2 when the projection is more than double or less
\* than half the line; the clamp is applied once and changes no other
\* field of the result.
C16_Clamp ==
    mainPc \in {"loop", "done"} =>
        \A n \in 1..Len(outcomes) :
            outcomes[n].kind = "ok" =>
                LET row == results[ResultIndex(n)]
                    p == outcomes[n].projection
                    l == batch[n].line
                    inBand == l * p.d <= 4 * p.n /\ p.n <= l * p.d
                IN  /\ inBand => RatEq(row.Projection, p)
                    /\ ~inBand =>
                          row.Projection.n * 4 * p.d
                              = row.Projection.d * (2 * p.n + l * p.d)
                    /\ row.EV = ev_cents(outcomes[n].ev)
                    /\ row.Player = batch[n].player
                    /\ row.Stat = batch[n].stat
                    /\ row.Line = batch[n].line
                    /\ row.Odds = batch[n].odds

\* A projection of five times the line is reported as three times the
\* line, which is still more than double the line: the clamp acted once.
\* In the same run a projection inside the band is reported as it is.
C16_Witness ==
    /\ mainPc = "done"
    /\ Len(results) >= 2
    /\ \E n \in 1..Len(outcomes) :
          /\ outcomes[n].kind = "ok"
          /\ RatEq(outcomes[n].projection, Rat(5 * batch[n].line, 2))
          /\ RatEq(results[ResultIndex(n)].Projection, Rat(3 * batch[n].line, 2))
    /\ \E n \in 1..Len(outcomes) :
          /\ outcomes[n].kind = "ok"
          /\ RatEq(outcomes[n].projection, Rat(5 * batch[n].line + 9, 10))
          /\ RatEq(results[ResultIndex(n)].Projection, outcomes[n].projection)
    /\ \E n \in 1..Len(outcomes) :
          /\ outcomes[n].kind = "ok"
          /\ RatEq(outcomes[n].projection, Rat(batch[n].line, 8))
          /\ RatEq(results[ResultIndex(n)].Projection, Rat(5 * batch[n].line, 16))

\* C18 as stated: a run with zero valid candidates, zero successful
\* valuations or zero results after the minimum-edge filter ends as a soft
\* no-results outcome, without exporting or reporting a ranked result set.
C18_SoftNoResults ==
    mainPc = "done"
        /\ (batch = << >> \/ results = << >> \/ Filter(results, is_strong) = << >>)
        => report.kind \in {"no_props", "no_results"}

\* What the run does in the three cases: no props and no results end with
\* a message and no export; results that the filter removes to the last
\* are exported as an empty result set.
C18_EmptyExport ==
    mainPc = "done" =>
        /\ batch = << >> => report.kind = "no_props"
        /\ batch # << >> /\ results = << >> => report.kind = "no_results"
        /\ results # << >> /\ Filter(results, is_strong) = << >>
              => report.kind = "exported" /\ report.rows = << >>

-----------------------------------------------------------------------------
(* Specification of the report: main from the end of its loop (line 398)   *)
(* on, with more results than the report keeps.                            *)

\* Props of a long batch.
MaxReport == 222

\* The i-th prop of a long batch; every third is an assists prop.
LongProp(i) ==
    Row("Player " \o ToString(i),
        IF i % 3 = 0 THEN "AST" ELSE "PTS",
        IF i % 3 = 0 THEN 16 ELSE 40)

LongBatch(n) == [i \in 1..n |-> LongProp(i)]

\* The EVs of a long batch rise with the index, fall with it, or are
\* scattered; all are different.
EvShapes == { "up", "down", "mixed" }

ShapedEv(shape, i, n) ==
    CASE shape = "up" -> 10 * i - 1000
      [] shape = "down" -> 10 * (n + 1 - i) - 1000
      [] OTHER -> 10 * ((7 * i) % 227) - 1000

\* The valuation of the i-th prop: EVs as shaped, but the prop after tieAt
\* has the EV of the prop at tieAt; every projection is five times the
\* line, but the prop at weakAt is 0.6 under its line.
LongOutcome(shape, tieAt, weakAt, i, n) ==
    [kind |-> "ok",
     projection |-> IF i = weakAt THEN Rat(5 * LongProp(i).line - 6, 10)
                    ELSE Rat(5 * LongProp(i).line, 2),
     ev |-> ShapedEv(shape, IF tieAt # 0 /\ i = tieAt + 1 THEN tieAt ELSE i, n)]

InitReport ==
    /\ \/ \E n \in (MaxReport - 2)..MaxReport, shape \in EvShapes,
             tieAt \in {0, 2, 110, 220}, weakAt \in {0, 1, 219, 221} :
             /\ batch = LongBatch(n)
             /\ outcomes = [i \in 1..n |-> LongOutcome(shape, tieAt, weakAt, i, n)]
             /\ results = [i \in 1..n |->
                              ResultRow(LongProp(i),
                                        LongOutcome(shape, tieAt, weakAt, i, n))]
       \/ /\ batch \in Batches \ { << >> }
          /\ outcomes = [i \in 1..Len(batch) |-> [kind |-> "raise"]]
          /\ results = << >>
    /\ cursor = Len(batch) + 1
    /\ mainPc = "loop"
    /\ report = NoValue
    /\ IdleOdds /\ IdleDvp /\ IdleGroup /\ IdleFetch
    /\ IdleGrade /\ IdleLogs /\ IdleLoad

NextReport == NoResults \/ ExportResults

SpecReport == InitReport /\ [][NextReport]_vars

\* The rows that pass the minimum-edge filter.
EdgeSurvivors == Filter(results, is_strong)

\* C15: the final reported result set is ordered by EV descending, has at
\* most 220 entries, and holds the 220 highest-EV survivors of the
\* minimum-edge filter when more than 220 survive (all of them otherwise):
\* every reported row is a survivor, no row is reported twice, and no
\* survivor left out has a higher EV than a reported one.
C15_RankedTopN ==
    Exported =>
        LET rows == report.rows
            kept == { rows[i] : i \in 1..Len(rows) }
            all == { EdgeSurvivors[i] : i \in 1..Len(EdgeSurvivors) }
        IN  /\ \A i \in 1..(Len(rows) - 1) : rows[i].EV >= rows[i + 1].EV
            /\ Len(rows) <= 220
            /\ Len(rows) = IF Len(EdgeSurvivors) > 220 THEN 220
                           ELSE Len(EdgeSurvivors)
            /\ Cardinality(kept) = Len(rows)
            /\ kept \subseteq all
            /\ Len(rows) > 0 =>
                  \A row \in all \ kept : row.EV <= rows[Len(rows)].EV

\* 221 rows survive the filter and two of them share the EV at the cut:
\* 220 are reported, the one left out has the EV of the last one reported.
C15_Witness ==
    /\ Exported
    /\ Len(report.rows) = 220
    /\ LET survivors == EdgeSurvivors
       IN  /\ Len(survivors) = 221
           /\ \E i \in 1..221 :
                 /\ survivors[i].EV = report.rows[220].EV
                 /\ \A k \in 1..220 : report.rows[k] # survivors[i]

-----------------------------------------------------------------------------
(* Specification of the projection model: one call on a caller's log.      *)

InitGrade ==
    /\ log \in GameLogs
    /\ gradeArgs \in [stat_col : allowed, line : LineArgs, adj : Adjustments]
    /\ gradeOut = NoValue
    /\ IdleOdds /\ IdleDvp /\ IdleGroup /\ IdleFetch /\ IdleMain
    /\ IdleLogs /\ IdleLoad

NextGrade == CallGradeProbabilities

SpecGrade == InitGrade /\ [][NextGrade]_vars

GradeReturned == gradeOut # NoValue /\ gradeOut.kind = "return"

\* The values the model took its statistics from: the stat's column of the
\* log, missing entries counted as zero.
StatVals == [i \in 1..Len(log.rows) |-> fillna0(log.rows[i][gradeArgs.stat_col])]

NeutralMultipliers ==
    /\ gradeArgs.adj.avg_mins > 0
    /\ gradeArgs.adj.proj_mins = gradeArgs.adj.avg_mins
    /\ gradeArgs.adj.injury_status \in {"", "active", "probable"}
    /\ gradeArgs.adj.dvp_mult = NeutralMult

\* C11: for every non-empty game log and neutral minutes, availability and
\* matchup multipliers, the mean is 0.60 * (mean of the last at most 20
\* values) + 0.40 * (mean of all values), missing values counted as zero,
\* and lies between the least and the greatest value of the log.
C11_WeightedMeanBounded ==
    GradeReturned /\ gradeOut.n > 0 /\ NeutralMultipliers =>
        LET m == gradeOut.mean
            n == Len(StatVals)
            k == IF n > L20 THEN L20 ELSE n
            recent == SumTo(StatVals, n) - SumTo(StatVals, n - k)
        IN  /\ \E lo \in 1..n : StatVals[lo] * m.d <= m.n
            /\ \E hi \in 1..n : m.n <= StatVals[hi] * m.d
            /\ Reduce(m) = Reduce(Rat(3 * recent * n + 2 * SumTo(StatVals, n) * k,
                                      5 * k * n))

\* A log of 21 games whose first game is missing and whose last 20 differ
\* from it: the recent mean and the season mean are not the same, and the
\* mean falls strictly inside the log's values.
C11_Witness ==
    /\ GradeReturned /\ NeutralMultipliers
    /\ gradeArgs.stat_col = "PTS"
    /\ gradeOut.n = L20 + 1
    /\ log.rows[1]["PTS"] = NaN
    /\ \A i \in 2..(L20 + 1) : log.rows[i]["PTS"] = 20
    /\ gradeOut.mean.n * 21 = gradeOut.mean.d * 412

\* C12 as stated: an empty game log gives a model probability of 0.5 for
\* every line value.
C12_EmptyLogAsStated ==
    GradeReturned /\ gradeOut.n = 0 => RatEq(gradeOut.p, Rat(1, 2))

\* C12, amended: for an empty game log the empirical probability is 0.5,
\* the mean 0 and the deviation 1, and the model probability is
\* 0.8 * (1 - Phi(line)) + 0.1: 0.5 at line 0, 0.2270 at line 1.0 and
\* 0.1000 (to four decimals) from line 4.5 on.
C12_EmptyLog ==
    GradeReturned /\ gradeOut.n = 0 =>
        /\ RatEq(gradeOut.p_emp, Rat(1, 2))
        /\ gradeOut.mean.n = 0
        /\ RatEq(gradeOut.var, Rat(1, 1))
        /\ gradeArgs.line = 0 => RatEq(gradeOut.p, Rat(1, 2))
        /\ gradeArgs.line = 2 => RatApprox4(gradeOut.p, 2270)
        /\ gradeArgs.line >= 9 => RatApprox4(gradeOut.p, 1000)
        /\ gradeArgs.line > 0 => RatLt(gradeOut.p, Rat(1, 2))

\* An empty log graded against the line 20.5.
C12_Witness ==
    /\ GradeReturned
    /\ gradeOut.n = 0
    /\ log.rows = << >>
    /\ gradeArgs.line = 41
    /\ RatEq(gradeOut.p, Rat(1, 10))

\* C13 as stated: a call of grade_probabilities, whether it returns or
\* raises, leaves the caller's game log with the columns and rows it had.
C13_LogReadOnly == [][log' = log]_vars

\* What the call does to the caller's log: nothing when the stat is a
\* column or the call raises; a derived stat is written into it as a new
\* column, the base columns and the number of rows staying as they were.
C13_LogGainsDerivedColumn ==
    [][ /\ Len(log'.rows) = Len(log.rows)
        /\ log.cols \subseteq log'.cols
        /\ \A i \in 1..Len(log.rows) : \A c \in log.cols :
              log'.rows[i][c] = log.rows[i][c]
        /\ log'.cols # log.cols =>
              /\ gradeArgs.stat_col \in {"REB+AST", "PRA"}
              /\ log'.cols = log.cols \cup {gradeArgs.stat_col}
              /\ gradeOut'.kind = "return"
        /\ gradeOut'.kind = "KeyError" => log' = log ]_vars

-----------------------------------------------------------------------------
(* Specification of the log fetcher: one call of fetch_player_logs.        *)

InitLogs ==
    /\ player_name \in PlayerNames
    /\ attempts = << >>
    /\ logsPc = "start"
    /\ logsOut = NoValue
    /\ IdleOdds /\ IdleDvp /\ IdleGroup /\ IdleFetch /\ IdleMain /\ IdleGrade
    /\ IdleLoad

NextLogs == MakeDirs \/ TryBallDontLie \/ TryEspn \/ TryBbref \/ ReturnNone

SpecLogs == InitLogs /\ [][NextLogs]_vars

ProviderOrder == << "BallDontLie", "ESPN", "BBRef" >>

\* C20: fetch_player_logs tries the providers in the order BallDon'tLie,
\* ESPN, Basketball-Reference; a provider is tried only after every earlier
\* one has failed; the log of the first that succeeds is returned and no
\* later one is tried; a provider's failure never leaves the function; and
\* the result is None exactly when all three fail.
C20_ProviderOrder ==
    /\ Len(attempts) <= 3
    /\ \A i \in 1..Len(attempts) :
          /\ attempts[i].provider = ProviderOrder[i]
          /\ i < Len(attempts) => ~Succeeds(attempts[i].outcome)
    /\ logsPc = "raised" => attempts = << >>
    /\ logsPc = "done" =>
          /\ attempts # << >>
          /\ logsOut \in { ReturnedNone } \cup
                { attempts[i].outcome.ok :
                    i \in { k \in 1..Len(attempts) : Succeeds(attempts[k].outcome) } }
          /\ logsOut = ReturnedNone <=>
                /\ Len(attempts) = 3
                /\ \A i \in 1..3 : ~Succeeds(attempts[i].outcome)
          /\ logsOut # ReturnedNone =>
                /\ Succeeds(attempts[Len(attempts)].outcome)
                /\ logsOut = attempts[Len(attempts)].outcome.ok
                /\ logsOut.provider = ProviderOrder[Len(attempts)]
    /\ logsPc \notin {"start", "raised", "done"} =>
          \A i \in 1..Len(attempts) : ~Succeeds(attempts[i].outcome)

\* The first provider fails, the second returns a log: the third is never
\* tried.
C20_Witness ==
    /\ logsPc = "done"
    /\ Len(attempts) = 2
    /\ ~Succeeds(attempts[1].outcome)
    /\ logsOut = FetchedLog("ESPN", BaseCols)

\* C22 as stated: every stat key the selector can emit is projected from a
\* game log that holds the base columns PTS, REB, AST, FG3M and MIN; no
\* such call of grade_probabilities ends in a missing-stat failure.
C22_EveryEmittedStatProjects ==
    (gradeOut # NoValue /\ BaseCols \subseteq log.cols
        /\ gradeArgs.stat_col \in allowed)
        => gradeOut.kind = "return"

\* What the call does with the emitted stat keys on a log with the base
\* columns: it fails with KeyError exactly for the pair sums PR and PA.
C22_PairSumsMissing ==
    (gradeOut # NoValue /\ BaseCols \subseteq log.cols)
        => (gradeOut.kind = "KeyError" <=> gradeArgs.stat_col \in {"PR", "PA"})

\* A call for PR on a full log of twenty games that ended in KeyError.
C22_PairSumFails ==
    /\ gradeOut # NoValue
    /\ BaseCols \subseteq log.cols
    /\ Len(log.rows) = L20
    /\ gradeArgs.stat_col = "PR"
    /\ gradeOut.kind = "KeyError"
    /\ gradeOut.error = "PR"

-----------------------------------------------------------------------------
(* Specification of the cached matchup table.                              *)

InitLoad ==
    /\ cache \in CacheFiles
    /\ force_refresh \in BOOLEAN
    /\ fetches = << >>
    /\ loadPc = "import"
    /\ lookups = << >>
    /\ dvp_data = NoValue
    /\ dvpArgs = NoValue
    /\ dvpOut = NoValue
    /\ IdleOdds /\ IdleGroup /\ IdleFetch /\ IdleMain
    /\ IdleGrade /\ IdleLogs

NextLoad == LoadDvpData \/ Lookup \/ RefreshByUpdater

SpecLoad == InitLoad /\ [][NextLoad]_vars

\* What load_dvp_data owes its caller.  A cache hit is a call without force
\* on a file that is there, younger than CACHE_HOURS and holds a "dvp"
\* member (a non-empty one when nonEmptyOnly): it returns that member and
\* fetches nothing.  Every other call fetches exactly once, and a fetch
\* without entries leaves the file alone and returns {}.  The run keeps the
\* table it got and every lookup reads it.
LoadContract(nonEmptyOnly) ==
    loadPc = "import" /\ loadPc' # "import" =>
        IF /\ ~force_refresh
           /\ cache.state = "json"
           /\ cache.age < CACHE_HOURS
           /\ nonEmptyOnly => Truthy(cache.dvp)
        THEN /\ fetches' = fetches
             /\ cache' = cache
             /\ loadPc' = "run"
             /\ dvp_data' = cache.dvp
        ELSE /\ Len(fetches') = 1
             /\ total_entries(fetches'[1]) = 0 =>
                    /\ cache' = cache
                    /\ loadPc' = "run"
                    /\ dvp_data' = EmptyDict

\* Once loaded, the table is never rebound.
SnapshotKept == loadPc = "run" => dvp_data' = dvp_data

\* At most one fetch, and every lookup so far read the table the run holds.
OneFetchOneSnapshot ==
    /\ Len(fetches) <= 1
    /\ \A i \in DOMAIN lookups : lookups[i] = dvp_data

-----------------------------------------------------------------------------
(* Specification of the odds converter.                                    *)

InitOdds ==
    /\ odds \in OddsVals
    /\ odds2 \in OddsVals
    /\ p_model \in ProbVals
    /\ valuation = NoValue
    /\ IdleDvp /\ IdleGroup /\ IdleFetch /\ IdleMain
    /\ IdleGrade /\ IdleLogs /\ IdleLoad

NextOdds == ValuateProps

SpecOdds == InitOdds /\ [][NextOdds]_vars

Valuated == valuation # NoValue

\* C8 (as stated): american_to_prob is monotone decreasing in |odds| for
\* negative odds and monotone decreasing in odds for positive odds.
C8_MonotoneAsStated ==
    Valuated =>
        /\ (odds < 0 /\ odds2 < 0 /\ Abs(odds) < Abs(odds2))
              => RatLe(valuation.second.p_book, valuation.first.p_book)
        /\ (odds > 0 /\ odds2 > 0 /\ odds < odds2)
              => RatLe(valuation.second.p_book, valuation.first.p_book)

\* C8 (amended): american_to_prob is strictly increasing in |odds| for
\* negative odds (a bigger favourite has a larger implied probability) and
\* strictly decreasing in odds for positive odds.
C8_Monotone ==
    Valuated =>
        /\ (odds < 0 /\ odds2 < 0 /\ Abs(odds) < Abs(odds2))
              => RatLt(valuation.first.p_book, valuation.second.p_book)
        /\ (odds > 0 /\ odds2 > 0 /\ odds < odds2)
              => RatLt(valuation.second.p_book, valuation.first.p_book)

C8_Witness ==
    /\ Valuated
    /\ odds = -110 /\ odds2 = -200
    /\ RatLt(valuation.first.p_book, valuation.second.p_book)

\* C9: for every integer odds, american_to_prob is |odds| / (|odds| + 100)
\* when odds < 0 and 100 / (odds + 100) when odds >= 0, lies in (0, 1], and
\* is about 0.5238 for odds = -110.
C9_ImpliedProbability ==
    Valuated =>
        LET pb == valuation.first.p_book IN
        /\ odds < 0 => pb.n * (Abs(odds) + 100) = Abs(odds) * pb.d
        /\ odds >= 0 => pb.n * (odds + 100) = 100 * pb.d
        /\ pb.d > 0
        /\ RatLt(Rat(0, 1), pb) /\ RatLe(pb, Rat(1, 1))
        /\ odds = -110 => RatApprox4(pb, 5238)

C9_Witness ==
    /\ Valuated
    /\ odds = -110
    /\ RatApprox4(valuation.first.p_book, 5238)

\* The formula of C10: p * payout - (1 - p) with payout 100 / |odds| for
\* odds < 0 and odds / 100 for odds >= 0, compared by cross multiplication.
C10_Formula ==
    LET ev == valuation.first.ev
        payN == IF odds < 0 THEN 100 ELSE odds
        payD == IF odds < 0 THEN Abs(odds) ELSE 100
    IN  /\ ev.d > 0
        /\ ev.n * (p_model.d * payD)
              = (p_model.n * payN - (p_model.d - p_model.n) * payD) * ev.d

HalfAtMinus110 == RatEq(p_model, Rat(1, 2)) /\ odds = -110

\* C10 (as stated): ev_sportsbook(p, odds) = p * payout - (1 - p), and
\* ev_sportsbook(0.5, -110) is about -0.0238.
C10_EvAsStated ==
    Valuated =>
        /\ C10_Formula
        /\ HalfAtMinus110 => RatApprox4(valuation.first.ev, -238)

\* C10 (amended): ev_sportsbook(p, odds) = p * payout - (1 - p), and
\* ev_sportsbook(0.5, -110) is about -0.0455 (-10/220).
C10_Ev ==
    Valuated =>
        /\ C10_Formula
        /\ HalfAtMinus110 => RatApprox4(valuation.first.ev, -455)

C10_Witness ==
    /\ Valuated
    /\ HalfAtMinus110
    /\ RatEq(valuation.first.ev, Rat(-1, 22))

=============================================================================
